---- MODULE Spec2Model ----
(***************************************************************************)
(* A model of the service-worker plugin serveRangeRequests.                *)
(*                                                                         *)
(* The repository holds two generations of the fetch handler:              *)
(*   - the latest-wins handler (src/src/index.ts 114-672, with the slot    *)
(*     manager of src/src/rangeSlot.ts): per-URL slots, preemption,        *)
(*     streamed 206 bodies, metadata cache.  Specification Spec.           *)
(*   - the deduplicating handler (src/src/index.ts 775-1141): in-flight    *)
(*     deduplication by cache key, materialised 206 bodies, range cache    *)
(*     and metadata cache.  Specification SpecDedup.                       *)
(*                                                                         *)
(* An action is one event-loop task: the arrival of a fetch event, the     *)
(* firing of a client's abort signal, or the completion of an I/O          *)
(* operation (caches.open, cache.match, a stream read, a network fetch).   *)
(* Promise reactions (microtasks) run before the next task: the actions    *)
(* that model a continuation after an already settled promise are enabled  *)
(* first, and a task is taken only when no such continuation is pending.   *)
(***************************************************************************)
EXTENDS Integers, Sequences, FiniteSets, TLC

(* ------------------------------ bounds --------------------------------- *)
NReq == 3
NUrls == 2
MaxConc == 2
MaxCap == 2

Req == 1..NReq
Urls == 1..NUrls

(* ------------------------- stored objects ------------------------------ *)
\* A full response held by the Cache API: present, Content-Length (0: no
\* usable Content-Length header) and whether the response has a body.
ObjSize == 2
\* etag and lastModified are the values of the ETag and Last-Modified headers
\* (0: the header is absent).
NoEntry == [present |-> FALSE, size |-> 0, hasBody |-> FALSE,
            etag |-> 0, lastModified |-> 0]
FullObject == [present |-> TRUE, size |-> ObjSize, hasBody |-> TRUE,
               etag |-> 1, lastModified |-> 1]
\* A stored response without a body, and one without a usable Content-Length.
NoBodyObject == [FullObject EXCEPT !.hasBody = FALSE]
NoLengthObject == [FullObject EXCEPT !.size = 0]
\* Another version of the object, of the same length.
NewerObject == [FullObject EXCEPT !.etag = 2, !.lastModified = 2]
Body(u, size) == [i \in 1..size |-> 10 * u + i]

(* ------------------------- Range header -------------------------------- *)
\* A Range header value: "bytes=a-b" (form "se"), "bytes=a-" (form "s"),
\* "bytes=-a" (form "suffix"), or a string matching neither regex ("bad").
NoHdr == [form |-> "bad", a |-> 0, b |-> 0]
HdrFirst == [form |-> "se", a |-> 0, b |-> 0]
HdrAll == [form |-> "s", a |-> 0, b |-> 0]
HdrPast == [form |-> "se", a |-> 0, b |-> ObjSize]
Hdrs == {HdrFirst, HdrAll, HdrPast}

\* An If-Range header value: absent ("none"), blank ("empty"), an HTTP date
\* or an entity tag; v identifies the date or the normalized tag.
NoIfRange == [kind |-> "none", v |-> 0]
IfRanges == {[kind |-> "empty", v |-> 0]}
               \cup {[kind |-> k, v |-> v] : k \in {"etag", "date"}, v \in 1..2}

(* ------------------------- Requests ------------------------------------- *)
\* The value of the passthrough header of a request: "absent" stands for the
\* null that headers.get returns when the request has no such header, ""
\* is a header with an empty value, "1" the value the handler sets.
NoTag == "absent"
Tags == {NoTag, "", "1"}

\* `if (request.headers.get(passthroughHeader))`
HasPassthrough(t) == t \notin {NoTag, ""}

\* A request without a Range header.
NoRange == [form |-> "none", a |-> 0, b |-> 0]

\* No request.
NoRequest == [url |-> 0, hdr |-> NoHdr, ifRange |-> NoIfRange, tag |-> NoTag]

\* A fallback request that copies the headers of the request as they are.
doFallbackFetch_Untagged(request, rangeHeader) ==
    [request EXCEPT !.hdr = rangeHeader]

\* doFallbackFetch: the request sent to the network copies the URL and the
\* headers of the request, and sets the passthrough header and Range.
doFallbackFetch(request, rangeHeader) ==
    [request EXCEPT !.tag = "1", !.hdr = rangeHeader]

\* runRestore: fullRequest, a GET of the URL that has the passthrough header
\* and no other header.
RestoreRequest(u) == [url |-> u, hdr |-> NoRange, ifRange |-> NoIfRange, tag |-> "1"]

\* ifRangeMatches(ifRangeValue, metadata)
ifRangeMatches(value, metadata) ==
    IF value.kind = "empty" THEN FALSE
    ELSE IF metadata.lastModified # 0 /\ value.kind = "date"
    THEN value.v = metadata.lastModified
    ELSE IF metadata.etag # 0
    THEN value.kind = "etag" /\ value.v = metadata.etag
    ELSE FALSE

Max2(x, y) == IF x >= y THEN x ELSE y
Min2(x, y) == IF x <= y THEN x ELSE y

\* parseRangeHeader: ok = FALSE stands for a thrown Error.
parseRangeHeader(h, fullSize) ==
    IF h.form = "suffix"
    THEN IF h.a <= 0
         THEN [ok |-> FALSE, start |-> 0, end |-> 0]
         ELSE [ok |-> TRUE, start |-> Max2(0, fullSize - h.a), end |-> fullSize - 1]
    ELSE IF h.form = "bad"
    THEN [ok |-> FALSE, start |-> 0, end |-> 0]
    ELSE LET start == h.a
             end == IF h.form = "se" THEN h.b ELSE fullSize - 1
         IN IF start < 0 \/ start >= fullSize
            THEN [ok |-> FALSE, start |-> 0, end |-> 0]
            ELSE IF end < start \/ end >= fullSize
            THEN [ok |-> FALSE, start |-> 0, end |-> 0]
            ELSE [ok |-> TRUE, start |-> start, end |-> end]

(* ------------------- insertion-ordered Map (JS Map) -------------------- *)
\* A Map is a sequence of records with a field key, in insertion order.
MapHas(m, k) == \E i \in 1..Len(m) : m[i].key = k
MapIndex(m, k) == CHOOSE i \in 1..Len(m) : m[i].key = k
MapGet(m, k) == m[MapIndex(m, k)]
RemoveAt(s, i) == SubSeq(s, 1, i - 1) \o SubSeq(s, i + 1, Len(s))
MapDelete(m, k) == IF MapHas(m, k) THEN RemoveAt(m, MapIndex(m, k)) ELSE m
\* Map.prototype.set: an existing key keeps its position, a new key goes last.
MapSet(m, e) ==
    IF MapHas(m, e.key) THEN [m EXCEPT ![MapIndex(m, e.key)] = e] ELSE Append(m, e)
MapKeys(m) == {m[i].key : i \in 1..Len(m)}

\* The assets option: unset, or a list of URLs.
NoAssets == [set |-> FALSE, urls |-> {}]

VARIABLES
    \* options of the plugin instance
    prioritizeLatestRequest, maxConcurrentRangesPerUrl, maxTrackedUrls,
    maxCachedRanges, maxCachedMetadata, maxCacheableRangeSize,
    restoreMissingToCache, assets,
    \* closure state of the plugin instance
    urlSemaphore, rangeCache, fileMetadataCache, cacheInstance, inFlight,
    restoreInProgress,
    \* AbortControllers of the UrlStates: the ids created so far, the aborted ones
    ctrlSeq, abortedCtrl,
    \* the Cache API store
    store,
    \* per request: inputs, position of the work promise, outcome of the handler
    rq, pc, out, signalAborted, grant, keyCtrl, result, stream, workOf, resp,
    \* per request: position of the background restore it started, and the
    \* response its fetch returned
    rst, restoreResponse,
    \* per request: the request its fallback sent to the network, and the
    \* request the restore it started sent to the network
    fallbackRequest, fullRequest,
    \* per request: the number of bytes its range stream has read from the
    \* body of the stored response
    position

optVars == <<prioritizeLatestRequest, maxConcurrentRangesPerUrl, maxTrackedUrls,
             maxCachedRanges, maxCachedMetadata, maxCacheableRangeSize,
             restoreMissingToCache, assets>>
restoreVars == <<restoreInProgress, rst, restoreResponse, fullRequest>>
slotVars == <<urlSemaphore, ctrlSeq, abortedCtrl>>
cacheVars == <<rangeCache, fileMetadataCache>>
reqVars == <<rq, pc, out, signalAborted, grant, keyCtrl, result, stream, workOf, resp>>
vars == <<optVars, slotVars, cacheVars, cacheInstance, inFlight, store, reqVars,
          restoreVars, fallbackRequest, position>>

NoResult == [kind |-> "none", size |-> 0, start |-> 0, end |-> 0, data |-> <<>>,
             etag |-> 0, lastModified |-> 0]
Undef == [kind |-> "undef", size |-> 0, start |-> 0, end |-> 0, data |-> <<>>,
          etag |-> 0, lastModified |-> 0]

\* The headers of a 206 response: Content-Range "bytes start-end/size" and
\* Content-Length.
NoHeaders == [contentRange |-> <<0, 0, 0>>, contentLength |-> 0]
NoResp == [status |-> 0, data |-> <<>>, headers |-> NoHeaders]

\* buildRangeResponseHeaders(range, metadata, dataByteLength)
buildRangeResponseHeaders(start, end, size, len) ==
    [contentRange |-> <<start, end, size>>, contentLength |-> len]

(* ------------------------- rangeSlot.ts -------------------------------- *)
UrlIdle(s) == s.count = 0 /\ s.nextWaiter = 0
HasUrl(sem, u) == \E i \in 1..Len(sem) : sem[i].url = u
UrlIndex(sem, u) == CHOOSE i \in 1..Len(sem) : sem[i].url = u
\* A variant that takes the oldest entry of the table, idle or not.
FirstIdle_Oldest(sem) == IF Len(sem) = 0 THEN 0 ELSE 1

\* The first entry of the table, in insertion order, that is idle (0: none).
FirstIdle(sem) ==
    LET I == {i \in 1..Len(sem) : UrlIdle(sem[i])}
    IN IF I = {} THEN 0 ELSE CHOOSE i \in I : \A j \in I : i <= j

\* getOrCreateUrlState: the table after the call and the controller counter.
getOrCreateUrlState(sem, seq, u) ==
    IF HasUrl(sem, u)
    THEN [sem |-> sem, seq |-> seq]
    ELSE LET i == IF maxTrackedUrls > 0 /\ Len(sem) >= maxTrackedUrls
                  THEN FirstIdle(sem) ELSE 0
             kept == IF i = 0 THEN sem ELSE RemoveAt(sem, i)
         IN [sem |-> Append(kept, [url |-> u, count |-> 0, nextWaiter |-> 0,
                                   abortController |-> seq + 1]),
             seq |-> seq + 1]

\* A variant whose streams listen to the signal of the client only.
StreamsAfterAbort_ClientOnly(str, aborted, sig) ==
    [q \in Req |-> IF str[q] = "reading" /\ sig[q] THEN "closed" ELSE str[q]]

\* Streams whose working signal has fired while a read is pending: the abort
\* listener of createRangeStream cancels the source reader.
StreamsAfterAbort(str, aborted, sig) ==
    [q \in Req |-> IF str[q] = "reading" /\ (sig[q] \/ keyCtrl[q] \in aborted)
                   THEN "closed" ELSE str[q]]

\* Variants of acquireRangeSlot that the admission properties tell apart.
\* The new waiter is installed but the waiter it replaces is never resolved.
acquireRangeSlot_KeepPrev(r, u) ==
    IF ~prioritizeLatestRequest
    THEN /\ grant' = [grant EXCEPT ![r] = "noop"]
         /\ UNCHANGED <<urlSemaphore, ctrlSeq, abortedCtrl, stream>>
    ELSE LET g == getOrCreateUrlState(urlSemaphore, ctrlSeq, u)
             i == UrlIndex(g.sem, u)
             s == g.sem[i]
         IN IF s.count < maxConcurrentRangesPerUrl
            THEN /\ urlSemaphore' = [g.sem EXCEPT ![i].count = @ + 1]
                 /\ grant' = [grant EXCEPT ![r] = "release"]
                 /\ ctrlSeq' = g.seq
                 /\ UNCHANGED <<abortedCtrl, stream>>
            ELSE /\ urlSemaphore' = [g.sem EXCEPT ![i].abortController = g.seq + 1,
                                                  ![i].nextWaiter = r]
                 /\ ctrlSeq' = g.seq + 1
                 /\ abortedCtrl' = abortedCtrl \cup {s.abortController}
                 /\ grant' = [grant EXCEPT ![r] = "pending"]
                 /\ stream' = StreamsAfterAbort(stream,
                                  abortedCtrl \cup {s.abortController}, signalAborted)

\* First come, first served: a standing waiter keeps its place and the new
\* arrival is turned away.
acquireRangeSlot_Fifo(r, u) ==
    IF ~prioritizeLatestRequest
    THEN /\ grant' = [grant EXCEPT ![r] = "noop"]
         /\ UNCHANGED <<urlSemaphore, ctrlSeq, abortedCtrl, stream>>
    ELSE LET g == getOrCreateUrlState(urlSemaphore, ctrlSeq, u)
             i == UrlIndex(g.sem, u)
             s == g.sem[i]
         IN IF s.count < maxConcurrentRangesPerUrl
            THEN /\ urlSemaphore' = [g.sem EXCEPT ![i].count = @ + 1]
                 /\ grant' = [grant EXCEPT ![r] = "release"]
                 /\ ctrlSeq' = g.seq
                 /\ UNCHANGED <<abortedCtrl, stream>>
            ELSE /\ urlSemaphore' =
                       [g.sem EXCEPT ![i].abortController = g.seq + 1,
                                     ![i].nextWaiter =
                                         IF s.nextWaiter # 0 THEN s.nextWaiter ELSE r]
                 /\ ctrlSeq' = g.seq + 1
                 /\ abortedCtrl' = abortedCtrl \cup {s.abortController}
                 /\ grant' = [grant EXCEPT ![r] =
                                IF s.nextWaiter # 0 THEN "null" ELSE "pending"]
                 /\ stream' = StreamsAfterAbort(stream,
                                  abortedCtrl \cup {s.abortController}, signalAborted)

\* Queuing without preemption: the arrival waits, the occupants' token is
\* neither fired nor replaced.
acquireRangeSlot_NoAbort(r, u) ==
    IF ~prioritizeLatestRequest
    THEN /\ grant' = [grant EXCEPT ![r] = "noop"]
         /\ UNCHANGED <<urlSemaphore, ctrlSeq, abortedCtrl, stream>>
    ELSE LET g == getOrCreateUrlState(urlSemaphore, ctrlSeq, u)
             i == UrlIndex(g.sem, u)
             s == g.sem[i]
         IN IF s.count < maxConcurrentRangesPerUrl
            THEN /\ urlSemaphore' = [g.sem EXCEPT ![i].count = @ + 1]
                 /\ grant' = [grant EXCEPT ![r] = "release"]
                 /\ ctrlSeq' = g.seq
                 /\ UNCHANGED <<abortedCtrl, stream>>
            ELSE /\ urlSemaphore' = [g.sem EXCEPT ![i].nextWaiter = r]
                 /\ ctrlSeq' = g.seq
                 /\ grant' = [q \in Req |->
                                IF q = r THEN "pending"
                                ELSE IF q = s.nextWaiter /\ grant[q] = "pending"
                                THEN "null"
                                ELSE IF q = s.nextWaiter /\ grant[q] = "abandoned"
                                THEN "dropped"
                                ELSE grant[q]]
                 /\ UNCHANGED <<abortedCtrl, stream>>

\* The semaphore is used whatever prioritizeLatestRequest says.
acquireRangeSlot_Always(r, u) ==
    LET g == getOrCreateUrlState(urlSemaphore, ctrlSeq, u)
        i == UrlIndex(g.sem, u)
        s == g.sem[i]
    IN IF s.count < maxConcurrentRangesPerUrl
       THEN /\ urlSemaphore' = [g.sem EXCEPT ![i].count = @ + 1]
            /\ grant' = [grant EXCEPT ![r] = "release"]
            /\ ctrlSeq' = g.seq
            /\ UNCHANGED <<abortedCtrl, stream>>
       ELSE /\ urlSemaphore' = [g.sem EXCEPT ![i].abortController = g.seq + 1,
                                             ![i].nextWaiter = r]
            /\ ctrlSeq' = g.seq + 1
            /\ abortedCtrl' = abortedCtrl \cup {s.abortController}
            /\ grant' = [q \in Req |->
                           IF q = r THEN "pending"
                           ELSE IF q = s.nextWaiter /\ grant[q] = "pending"
                           THEN "null"
                           ELSE IF q = s.nextWaiter /\ grant[q] = "abandoned"
                           THEN "dropped"
                           ELSE grant[q]]
            /\ stream' = StreamsAfterAbort(stream,
                             abortedCtrl \cup {s.abortController}, signalAborted)

\* acquireRangeSlot(url), called by request r.
acquireRangeSlot(r, u) ==
    IF ~prioritizeLatestRequest
    THEN /\ grant' = [grant EXCEPT ![r] = "noop"]
         /\ UNCHANGED <<urlSemaphore, ctrlSeq, abortedCtrl, stream>>
    ELSE LET g == getOrCreateUrlState(urlSemaphore, ctrlSeq, u)
             i == UrlIndex(g.sem, u)
             s == g.sem[i]
         IN IF s.count < maxConcurrentRangesPerUrl
            THEN /\ urlSemaphore' = [g.sem EXCEPT ![i].count = @ + 1]
                 /\ grant' = [grant EXCEPT ![r] = "release"]
                 /\ ctrlSeq' = g.seq
                 /\ UNCHANGED <<abortedCtrl, stream>>
            ELSE /\ urlSemaphore' = [g.sem EXCEPT ![i].abortController = g.seq + 1,
                                                  ![i].nextWaiter = r]
                 /\ ctrlSeq' = g.seq + 1
                 /\ abortedCtrl' = abortedCtrl \cup {s.abortController}
                 /\ grant' = [q \in Req |->
                                IF q = r THEN "pending"
                                ELSE IF q = s.nextWaiter /\ grant[q] = "pending"
                                THEN "null"
                                ELSE IF q = s.nextWaiter /\ grant[q] = "abandoned"
                                THEN "dropped"
                                ELSE grant[q]]
                 /\ stream' = StreamsAfterAbort(stream,
                                  abortedCtrl \cup {s.abortController}, signalAborted)

\* A variant whose wake() does not count the waiter it promotes.
ReleaseSem_NoCount(sem, u) ==
    LET i == UrlIndex(sem, u)
        s == sem[i]
    IN [sem EXCEPT ![i] = [s EXCEPT !.count = s.count - 1, !.nextWaiter = 0]]

\* release(): the table and the grants after request r gives its slot back.
ReleaseSem(sem, u) ==
    LET i == UrlIndex(sem, u)
        s == sem[i]
    IN [sem EXCEPT ![i] = [s EXCEPT !.count = (s.count - 1)
                                              + (IF s.nextWaiter # 0 THEN 1 ELSE 0),
                                    !.nextWaiter = 0]]

ReleaseGrant(g, sem, u) ==
    LET w == sem[UrlIndex(sem, u)].nextWaiter
    IN IF w = 0 THEN g
       ELSE [g EXCEPT ![w] = IF @ = "pending" THEN "promoted" ELSE "leaked"]

release(r, sem) ==
    IF grant[r] = "noop"
    THEN /\ urlSemaphore' = sem
         /\ grant' = grant
    ELSE /\ urlSemaphore' = ReleaseSem(sem, rq[r].url)
         /\ grant' = ReleaseGrant(grant, sem, rq[r].url)

\* A variant that merges the client's signal only.
WorkSignalAborted_ClientOnly(r) == signalAborted[r]

\* mergeAbortSignals(...).aborted for the working signal of request r.
WorkSignalAborted(r) == signalAborted[r] \/ keyCtrl[r] \in abortedCtrl

(* ------------- index.ts 114-672: the latest-wins handler --------------- *)
CacheKey(u, h) == <<u, h>>

\* A variant that answers a hit without the cached bytes.
CachedRangeResponse_NoBody(e) == [status |-> 206, data |-> <<>>, headers |-> e.headers]

\* The 206 response built from a range-cache entry.
CachedRangeResponse(e) == [status |-> 206, data |-> e.data, headers |-> e.headers]

\* getCachedRange: the entry, moved to the end of the Map on a hit.
getCachedRange(m, k) ==
    IF MapHas(m, k) THEN Append(MapDelete(m, k), MapGet(m, k)) ELSE m

\* manageMetadataCacheSize: its limit is maxCachedRanges.
manageMetadataCacheSize(m) ==
    IF maxCachedRanges <= 0 THEN m
    ELSE IF Len(m) >= maxCachedRanges THEN Tail(m) ELSE m

\* extractMetadataFromResponse: size 0 stands for undefined.
extractMetadataFromResponse(obj) == IF obj.size <= 0 THEN 0 ELSE obj.size

\* A continuation whose promise is already settled (a microtask) is pending.
SlotSettled(r) == pc[r] = "slotWait" /\ grant[r] # "pending"
RaceSettled(r) == out[r] = "pending" /\ (pc[r] = "finished" \/ signalAborted[r])
MicrotaskPending == \E r \in Req : SlotSettled(r) \/ RaceSettled(r)

\* fetch(event), up to the first await of the work promise; t is the value
\* of the passthrough header of the request.
FetchStartTag(r, u, h, ab, ifr, t) ==
    /\ ~MicrotaskPending
    /\ out[r] = "none"
    /\ \A q \in Req : q < r => out[q] # "none"
    /\ rq' = [rq EXCEPT ![r] = [url |-> u, hdr |-> h, ifRange |-> ifr, tag |-> t]]
    /\ IF HasPassthrough(t) \/ h = NoRange
       THEN \* one of the handler's own requests, or no Range header: return
            /\ out' = [out EXCEPT ![r] = "passthrough"]
            /\ pc' = [pc EXCEPT ![r] = "finished"]
            /\ UNCHANGED <<slotVars, rangeCache, signalAborted, grant, stream, resp>>
       ELSE IF ab
       THEN \* signal.aborted on entry: AbortError
            /\ signalAborted' = [signalAborted EXCEPT ![r] = TRUE]
            /\ out' = [out EXCEPT ![r] = "abortError"]
            /\ pc' = [pc EXCEPT ![r] = "finished"]
            /\ UNCHANGED <<slotVars, rangeCache, grant, stream, resp>>
       ELSE IF maxCachedRanges > 0 /\ MapHas(rangeCache, CacheKey(u, h))
       THEN /\ rangeCache' = getCachedRange(rangeCache, CacheKey(u, h))
            /\ out' = [out EXCEPT ![r] = "cached206"]
            /\ resp' = [resp EXCEPT ![r] =
                          CachedRangeResponse(MapGet(rangeCache, CacheKey(u, h)))]
            /\ pc' = [pc EXCEPT ![r] = "finished"]
            /\ UNCHANGED <<slotVars, signalAborted, grant, stream>>
       ELSE /\ out' = [out EXCEPT ![r] = "pending"]
            /\ pc' = [pc EXCEPT ![r] = "slotWait"]
            /\ acquireRangeSlot(r, u)
            /\ UNCHANGED <<rangeCache, signalAborted, resp>>
    /\ UNCHANGED <<optVars, fallbackRequest, position, restoreVars, fileMetadataCache,
                   cacheInstance, inFlight, store, keyCtrl, result, workOf>>

\* fetch(event) of a request without the passthrough header.
FetchStartIf(r, u, h, ab, ifr) == FetchStartTag(r, u, h, ab, ifr, NoTag)

\* fetch(event) of a request without an If-Range header.
FetchStart(r, u, h, ab) == FetchStartIf(r, u, h, ab, NoIfRange)

\* The work promise after `await Promise.race([acquireRangeSlot(url), abort])`.
SlotResume(r) ==
    /\ SlotSettled(r)
    /\ IF grant[r] \in {"release", "promoted", "noop"}
       THEN LET g == IF prioritizeLatestRequest
                     THEN getOrCreateUrlState(urlSemaphore, ctrlSeq, rq[r].url)
                     ELSE [sem |-> urlSemaphore, seq |-> ctrlSeq]
                c == IF prioritizeLatestRequest
                     THEN g.sem[UrlIndex(g.sem, rq[r].url)].abortController
                     ELSE 0
            IN /\ keyCtrl' = [keyCtrl EXCEPT ![r] = c]
               /\ ctrlSeq' = g.seq
               /\ IF signalAborted[r] \/ c \in abortedCtrl
                  THEN /\ pc' = [pc EXCEPT ![r] = "finished"]
                       /\ result' = [result EXCEPT ![r] = Undef]
                       /\ release(r, g.sem)
                  ELSE /\ pc' = [pc EXCEPT ![r] =
                                   IF cacheInstance THEN "match" ELSE "getCache"]
                       /\ urlSemaphore' = g.sem
                       /\ UNCHANGED <<grant, result>>
       ELSE \* resolved with null, or the race was lost to the client's abort
            /\ pc' = [pc EXCEPT ![r] = "finished"]
            /\ result' = [result EXCEPT ![r] = Undef]
            /\ UNCHANGED <<urlSemaphore, ctrlSeq, grant, keyCtrl>>
    /\ UNCHANGED <<optVars, fallbackRequest, position, restoreVars, abortedCtrl,
                   cacheVars, cacheInstance, inFlight, store, rq, out, signalAborted,
                   stream, workOf, resp>>

\* getCache(): caches.open settles.
WorkGetCache(r, ok) ==
    /\ ~MicrotaskPending
    /\ pc[r] = "getCache"
    /\ cacheInstance' = ok
    /\ IF ok /\ ~WorkSignalAborted(r)
       THEN /\ pc' = [pc EXCEPT ![r] = "match"]
            /\ UNCHANGED <<urlSemaphore, grant, result>>
       ELSE /\ pc' = [pc EXCEPT ![r] = "finished"]
            /\ result' = [result EXCEPT ![r] = Undef]
            /\ release(r, urlSemaphore)
    /\ UNCHANGED <<optVars, fallbackRequest, position, restoreVars, ctrlSeq,
                   abortedCtrl, cacheVars, inFlight, store, rq, out, signalAborted,
                   keyCtrl, stream, workOf, resp>>

\* A variant that uses the entry of fileMetadataCache whenever there is one.
MetadataFor_Cached(u, obj) ==
    IF MapHas(fileMetadataCache, u)
    THEN MapGet(fileMetadataCache, u)
    ELSE [key |-> u, size |-> extractMetadataFromResponse(obj),
          etag |-> obj.etag, lastModified |-> obj.lastModified]

\* The FileMetadata the work promise uses for the object obj of URL u: the
\* entry of fileMetadataCache when its size equals the Content-Length of obj,
\* else the headers of obj.
MetadataFor(u, obj) ==
    LET cached == IF MapHas(fileMetadataCache, u)
                  THEN MapGet(fileMetadataCache, u)
                  ELSE [key |-> u, size |-> 0, etag |-> 0, lastModified |-> 0]
    IN IF cached.size # 0 /\ cached.size = obj.size
       THEN cached
       ELSE [key |-> u, size |-> extractMetadataFromResponse(obj),
             etag |-> obj.etag, lastModified |-> obj.lastModified]

\* request.headers.get('If-Range') is truthy: a blank value reads as ''.
HasIfRange(r) == rq[r].ifRange.kind \notin {"none", "empty"}

\* The result of the work promise once matchByUrl returned the object obj.
ServeFromCached(r, obj) ==
    LET u == rq[r].url
        metadata == MetadataFor(u, obj)
        size == metadata.size
        range == parseRangeHeader(rq[r].hdr, size)
    IN IF ~obj.present \/ WorkSignalAborted(r) \/ size = 0 THEN Undef
       ELSE IF HasIfRange(r) /\ ~ifRangeMatches(rq[r].ifRange, metadata) THEN Undef
       ELSE IF ~range.ok \/ ~obj.hasBody THEN Undef
       ELSE [kind |-> "ok", size |-> size, start |-> range.start, end |-> range.end,
             data |-> <<>>, etag |-> metadata.etag,
             lastModified |-> metadata.lastModified]

\* parseRangeHeader threw inside the work promise: the catch clears the handle.
ServeThrows(r, obj) ==
    LET metadata == MetadataFor(rq[r].url, obj)
    IN /\ obj.present /\ ~WorkSignalAborted(r) /\ metadata.size # 0
       /\ ~(HasIfRange(r) /\ ~ifRangeMatches(rq[r].ifRange, metadata))
       /\ ~parseRangeHeader(rq[r].hdr, metadata.size).ok

\* The assets gate of the restore: with a list configured, only its URLs.
RestoreAllowed(u) == ~assets.set \/ u \in assets.urls

\* A variant that does not read restoreInProgress.
RestoreStarts_Unguarded(u, obj) ==
    /\ ~obj.present
    /\ restoreMissingToCache
    /\ RestoreAllowed(u)

\* A variant that does not read the restoreMissingToCache option.
RestoreStarts_OptionIgnored(u, obj) ==
    /\ ~obj.present
    /\ u \notin restoreInProgress
    /\ RestoreAllowed(u)

\* A variant that starts the restore for a stored response without a body or
\* without a usable Content-Length as well.
RestoreStarts_AnyMiss(u, obj) ==
    /\ (~obj.present \/ ~obj.hasBody \/ extractMetadataFromResponse(obj) = 0)
    /\ restoreMissingToCache
    /\ u \notin restoreInProgress
    /\ RestoreAllowed(u)

\* The restore is started: the object is missing, restore-on-miss is on and
\* no restore of the URL is in progress.
RestoreStarts(u, obj) ==
    /\ ~obj.present
    /\ restoreMissingToCache
    /\ u \notin restoreInProgress
    /\ RestoreAllowed(u)

\* runRestore() called by request r: up to the first I/O of the restore.
runRestore(r, u) ==
    /\ restoreInProgress' = restoreInProgress \cup {u}
    /\ rst' = [rst EXCEPT ![r] = IF cacheInstance THEN "match" ELSE "getCache"]
    /\ UNCHANGED <<restoreResponse, fullRequest>>

\* matchByUrl settles: the rest of the work promise, and its finally.
WorkMatch(r, ok) ==
    /\ ~MicrotaskPending
    /\ pc[r] = "match"
    /\ IF ok /\ RestoreStarts(rq[r].url, store[rq[r].url])
       THEN runRestore(r, rq[r].url)
       ELSE UNCHANGED restoreVars
    /\ LET res == IF ok THEN ServeFromCached(r, store[rq[r].url]) ELSE Undef
       IN /\ result' = [result EXCEPT ![r] = res]
          /\ stream' = [stream EXCEPT ![r] =
                          IF res.kind = "ok" THEN "reading" ELSE @]
          /\ cacheInstance' = IF ~ok \/ ServeThrows(r, store[rq[r].url])
                              THEN FALSE ELSE cacheInstance
    /\ pc' = [pc EXCEPT ![r] = "finished"]
    /\ release(r, urlSemaphore)
    /\ UNCHANGED <<optVars, fallbackRequest, position, ctrlSeq, abortedCtrl, cacheVars,
                   inFlight, store, rq, out, signalAborted, keyCtrl, workOf, resp>>

\* A variant that returns nothing for an empty result instead of fetching.
MainResume_Passthrough(r) ==
    /\ RaceSettled(r)
    /\ IF pc[r] = "finished" /\ result[r].kind = "ok"
       THEN /\ fileMetadataCache' =
                  MapSet(manageMetadataCacheSize(fileMetadataCache),
                         [key |-> rq[r].url, size |-> result[r].size,
                          etag |-> result[r].etag,
                          lastModified |-> result[r].lastModified])
            /\ out' = [out EXCEPT ![r] = "response206"]
            /\ resp' = [resp EXCEPT ![r] =
                          [status |-> 206, data |-> <<>>,
                           headers |-> buildRangeResponseHeaders(
                               result[r].start, result[r].end, result[r].size,
                               result[r].end - result[r].start + 1)]]
            /\ UNCHANGED fallbackRequest
       ELSE /\ out' = [out EXCEPT ![r] =
                          IF signalAborted[r] THEN "abortError" ELSE "passthrough"]
            /\ UNCHANGED <<fileMetadataCache, resp, fallbackRequest>>
    /\ UNCHANGED <<optVars, position, restoreVars, slotVars, rangeCache, cacheInstance,
                   inFlight, store, rq, pc, signalAborted, grant, keyCtrl, result,
                   stream, workOf>>

\* A variant that goes to the fallback without reading signal.aborted.
MainResume_NoAbortCheck(r) ==
    /\ RaceSettled(r)
    /\ IF pc[r] = "finished" /\ result[r].kind = "ok"
       THEN /\ fileMetadataCache' =
                  MapSet(manageMetadataCacheSize(fileMetadataCache),
                         [key |-> rq[r].url, size |-> result[r].size,
                          etag |-> result[r].etag,
                          lastModified |-> result[r].lastModified])
            /\ out' = [out EXCEPT ![r] = "response206"]
            /\ resp' = [resp EXCEPT ![r] =
                          [status |-> 206, data |-> <<>>,
                           headers |-> buildRangeResponseHeaders(
                               result[r].start, result[r].end, result[r].size,
                               result[r].end - result[r].start + 1)]]
            /\ UNCHANGED fallbackRequest
       ELSE /\ out' = [out EXCEPT ![r] =
                          "fallback"]
            /\ fallbackRequest' =
                  [fallbackRequest EXCEPT ![r] = doFallbackFetch(rq[r], rq[r].hdr)]
            /\ UNCHANGED <<fileMetadataCache, resp>>
    /\ UNCHANGED <<optVars, position, restoreVars, slotVars, rangeCache, cacheInstance,
                   inFlight, store, rq, pc, signalAborted, grant, keyCtrl, result,
                   stream, workOf>>

\* fetch(event) after `await Promise.race([workPromise, abortPromise])`.
MainResume(r) ==
    /\ RaceSettled(r)
    /\ IF pc[r] = "finished" /\ result[r].kind = "ok"
       THEN /\ fileMetadataCache' =
                  MapSet(manageMetadataCacheSize(fileMetadataCache),
                         [key |-> rq[r].url, size |-> result[r].size,
                          etag |-> result[r].etag,
                          lastModified |-> result[r].lastModified])
            /\ out' = [out EXCEPT ![r] = "response206"]
            /\ resp' = [resp EXCEPT ![r] =
                          [status |-> 206, data |-> <<>>,
                           headers |-> buildRangeResponseHeaders(
                               result[r].start, result[r].end, result[r].size,
                               result[r].end - result[r].start + 1)]]
            /\ UNCHANGED fallbackRequest
       ELSE /\ out' = [out EXCEPT ![r] =
                          IF signalAborted[r] THEN "abortError" ELSE "fallback"]
            /\ fallbackRequest' =
                  IF signalAborted[r] THEN fallbackRequest
                  ELSE [fallbackRequest EXCEPT ![r] = doFallbackFetch(rq[r], rq[r].hdr)]
            /\ UNCHANGED <<fileMetadataCache, resp>>
    /\ UNCHANGED <<optVars, position, restoreVars, slotVars, rangeCache, cacheInstance,
                   inFlight, store, rq, pc, signalAborted, grant, keyCtrl, result,
                   stream, workOf>>

\* A variant whose fallback response waits for the end of the restore.
FallbackDone_AfterRestore(r) ==
    /\ ~MicrotaskPending
    /\ out[r] = "fallback"
    /\ rst[r] \notin {"getCache", "match", "fetch", "put"}
    /\ out' = [out EXCEPT ![r] =
                  IF signalAborted[r] THEN "abortError" ELSE "fallbackResponse"]
    /\ UNCHANGED <<optVars, fallbackRequest, position, restoreVars, slotVars,
                   cacheVars, cacheInstance, inFlight, store, rq, pc, signalAborted,
                   grant, keyCtrl, result, stream, workOf, resp>>

\* doFallbackFetch() settles.
FallbackDone(r) ==
    /\ ~MicrotaskPending
    /\ out[r] = "fallback"
    /\ out' = [out EXCEPT ![r] =
                  IF signalAborted[r] THEN "abortError" ELSE "fallbackResponse"]
    /\ UNCHANGED <<optVars, fallbackRequest, position, restoreVars, slotVars,
                   cacheVars, cacheInstance, inFlight, store, rq, pc, signalAborted,
                   grant, keyCtrl, result, stream, workOf, resp>>

\* The abort event of request.signal.
ClientAbort(r) ==
    /\ ~MicrotaskPending
    /\ ~signalAborted[r]
    /\ \/ out[r] \in {"pending", "fallback"}
       \/ pc[r] \in {"slotWait", "getCache", "match"}
       \/ stream[r] \in {"reading", "queued"}
    /\ signalAborted' = [signalAborted EXCEPT ![r] = TRUE]
    /\ grant' = [grant EXCEPT ![r] = IF @ = "pending" THEN "abandoned" ELSE @]
    /\ stream' = StreamsAfterAbort(stream, abortedCtrl,
                                   [signalAborted EXCEPT ![r] = TRUE])
    /\ UNCHANGED <<optVars, fallbackRequest, position, restoreVars, slotVars,
                   cacheVars, cacheInstance, inFlight, store, rq, pc, out, keyCtrl,
                   result, workOf, resp>>

\* A read of the source stream settles and the range has been delivered.
StreamRead(r) ==
    /\ ~MicrotaskPending
    /\ stream[r] = "reading"
    /\ stream' = [stream EXCEPT ![r] = "closed"]
    /\ UNCHANGED <<optVars, fallbackRequest, position, restoreVars, slotVars,
                   cacheVars, cacheInstance, inFlight, store, rq, pc, out,
                   signalAborted, grant, keyCtrl, result, workOf, resp>>

(* createRangeStream, one read of the source at a time.  stream[r] is
   "reading" while a reader.read() of pull is pending, "queued" while the
   enqueued chunk waits for the consumer, "closed" or "errored" at the end. *)
\* The body of the stored response that request r streams from.
SourceBody(r) == Body(rq[r].url, store[rq[r].url].size)

\* The reader that createRangeStream took on the body: it is cancelled by the
\* abort listener of the signal and by nothing else in pull, and it is never
\* released.
ReaderState(r) ==
    IF stream[r] = "none" THEN "none"
    ELSE IF WorkSignalAborted(r) THEN "cancelled"
    ELSE "locked"

\* A variant that takes range.end for the offset after the last byte.
ChunkStep_DropsLast(chunkStart, len, rangeStart, rangeEnd) ==
    LET chunkEnd == chunkStart + len
        start == Max2(rangeStart - chunkStart, 0)
        end == Min2(rangeEnd - chunkStart, len)
    IN IF chunkEnd < rangeStart THEN [act |-> "continue", from |-> 0, to |-> 0]
       ELSE IF chunkStart > rangeEnd THEN [act |-> "close", from |-> 0, to |-> 0]
       ELSE IF start >= end THEN [act |-> "continue", from |-> 0, to |-> 0]
       ELSE [act |-> "enqueue", from |-> start, to |-> end]

\* What pull does with a chunk of len bytes read at offset chunkStart:
\* it goes on to the next read, closes the stream, or enqueues the bytes
\* from..to-1 of the chunk.
ChunkStep(chunkStart, len, rangeStart, rangeEnd) ==
    LET chunkEnd == chunkStart + len
        start == Max2(rangeStart - chunkStart, 0)
        end == Min2(rangeEnd - chunkStart + 1, len)
    IN IF chunkEnd < rangeStart THEN [act |-> "continue", from |-> 0, to |-> 0]
       ELSE IF chunkStart > rangeEnd THEN [act |-> "close", from |-> 0, to |-> 0]
       ELSE IF start >= end THEN [act |-> "continue", from |-> 0, to |-> 0]
       ELSE [act |-> "enqueue", from |-> start, to |-> end]

\* The pending reader.read() of pull resolves with a chunk of len bytes.
PullChunk(r, len) ==
    /\ ~MicrotaskPending
    /\ stream[r] = "reading"
    /\ out[r] = "response206"
    /\ len \in 0..(Len(SourceBody(r)) - position[r])
    /\ LET step == ChunkStep(position[r], len, result[r].start, result[r].end)
       IN /\ position' = [position EXCEPT ![r] = @ + len]
          /\ stream' = [stream EXCEPT ![r] =
                          CASE step.act = "continue" -> "reading"
                            [] step.act = "close" -> "closed"
                            [] step.act = "enqueue" -> "queued"]
          /\ resp' = [resp EXCEPT ![r].data =
                        IF step.act = "enqueue"
                        THEN @ \o SubSeq(SourceBody(r), position[r] + step.from + 1,
                                         position[r] + step.to)
                        ELSE @]
    /\ UNCHANGED <<optVars, fallbackRequest, restoreVars, slotVars, cacheVars,
                   cacheInstance, inFlight, store, rq, pc, out, signalAborted, grant,
                   keyCtrl, result, workOf>>

\* The pending reader.read() of pull resolves with done: the body has ended.
PullDone(r) ==
    /\ ~MicrotaskPending
    /\ stream[r] = "reading"
    /\ out[r] = "response206"
    /\ position[r] = Len(SourceBody(r))
    /\ stream' = [stream EXCEPT ![r] = "closed"]
    /\ UNCHANGED <<optVars, fallbackRequest, position, restoreVars, slotVars,
                   cacheVars, cacheInstance, inFlight, store, rq, pc, out,
                   signalAborted, grant, keyCtrl, result, workOf, resp>>

\* The consumer of the response takes the queued chunk and the stream calls
\* pull again: it errors the stream when the signal has fired, else it reads.
ConsumerRead(r) ==
    /\ ~MicrotaskPending
    /\ stream[r] = "queued"
    /\ stream' = [stream EXCEPT ![r] =
                    IF WorkSignalAborted(r) THEN "errored" ELSE "reading"]
    /\ UNCHANGED <<optVars, fallbackRequest, position, restoreVars, slotVars,
                   cacheVars, cacheInstance, inFlight, store, rq, pc, out,
                   signalAborted, grant, keyCtrl, result, workOf, resp>>

\* A variant whose finally leaves the URL in restoreInProgress.
RestoreFinish_KeepsKey(r) ==
    /\ restoreInProgress' = restoreInProgress
    /\ rst' = [rst EXCEPT ![r] = "done"]
    /\ restoreResponse' = [restoreResponse EXCEPT ![r] = "none"]
    /\ fullRequest' = [fullRequest EXCEPT ![r] = NoRequest]

\* The restore started by request r ends: the finally of runRestore.
RestoreFinish(r) ==
    /\ restoreInProgress' = restoreInProgress \ {rq[r].url}
    /\ rst' = [rst EXCEPT ![r] = "done"]
    /\ restoreResponse' = [restoreResponse EXCEPT ![r] = "none"]
    /\ fullRequest' = [fullRequest EXCEPT ![r] = NoRequest]

\* The restore's `await getCache()`: caches.open settles.
RestoreGetCache(r, ok) ==
    /\ ~MicrotaskPending
    /\ rst[r] = "getCache"
    /\ cacheInstance' = ok
    /\ IF ok
       THEN /\ rst' = [rst EXCEPT ![r] = "match"]
            /\ UNCHANGED <<restoreInProgress, restoreResponse, fullRequest>>
       ELSE RestoreFinish(r)
    /\ UNCHANGED <<optVars, fallbackRequest, position, slotVars, cacheVars, inFlight,
                   store, reqVars>>

\* A variant that goes on to the fetch whatever the lookup returned.
RestoreMatch_NoRecheck(r, ok) ==
    /\ ~MicrotaskPending
    /\ rst[r] = "match"
    /\ IF ok
       THEN /\ rst' = [rst EXCEPT ![r] = "fetch"]
            /\ fullRequest' = [fullRequest EXCEPT ![r] = RestoreRequest(rq[r].url)]
            /\ UNCHANGED <<restoreInProgress, restoreResponse>>
       ELSE RestoreFinish(r)
    /\ UNCHANGED <<optVars, fallbackRequest, position, slotVars, cacheVars,
                   cacheInstance, inFlight, store, reqVars>>

\* The restore's matchByUrl settles; a missing object is fetched in full.
RestoreMatch(r, ok) ==
    /\ ~MicrotaskPending
    /\ rst[r] = "match"
    /\ IF ok /\ ~store[rq[r].url].present
       THEN /\ rst' = [rst EXCEPT ![r] = "fetch"]
            /\ fullRequest' = [fullRequest EXCEPT ![r] = RestoreRequest(rq[r].url)]
            /\ UNCHANGED <<restoreInProgress, restoreResponse>>
       ELSE RestoreFinish(r)
    /\ UNCHANGED <<optVars, fallbackRequest, position, slotVars, cacheVars,
                   cacheInstance, inFlight, store, reqVars>>

\* A restore that stores whatever response its fetch returned, without
\* testing response.ok.
RestoreFetch_AnyStatus(r, res) ==
    /\ ~MicrotaskPending
    /\ rst[r] = "fetch"
    /\ IF res # "error"
       THEN /\ rst' = [rst EXCEPT ![r] = "put"]
            /\ restoreResponse' = [restoreResponse EXCEPT ![r] = res]
            /\ UNCHANGED <<restoreInProgress, fullRequest>>
       ELSE RestoreFinish(r)
    /\ UNCHANGED <<optVars, fallbackRequest, position, slotVars, cacheVars,
                   cacheInstance, inFlight, store, reqVars>>

\* The restore's fetchPassthrough settles: "ok", "notOk" (response.ok is
\* false) or "error" (the fetch rejects).
RestoreFetch(r, res) ==
    /\ ~MicrotaskPending
    /\ rst[r] = "fetch"
    /\ IF res = "ok"
       THEN /\ rst' = [rst EXCEPT ![r] = "put"]
            /\ restoreResponse' = [restoreResponse EXCEPT ![r] = res]
            /\ UNCHANGED <<restoreInProgress, fullRequest>>
       ELSE RestoreFinish(r)
    /\ UNCHANGED <<optVars, fallbackRequest, position, slotVars, cacheVars,
                   cacheInstance, inFlight, store, reqVars>>

\* The restore's cache.put settles.
RestorePut(r, ok) ==
    /\ ~MicrotaskPending
    /\ rst[r] = "put"
    /\ store' = IF ok THEN [store EXCEPT ![rq[r].url] = FullObject] ELSE store
    /\ RestoreFinish(r)
    /\ UNCHANGED <<optVars, fallbackRequest, position, slotVars, cacheVars,
                   cacheInstance, inFlight, reqVars>>

\* Other code of the service worker replaces the stored object of URL u by
\* one of the same length with other validators (cache.put of a new version).
StoreReplace(u) ==
    /\ ~MicrotaskPending
    /\ store[u] = FullObject
    /\ store' = [store EXCEPT ![u] = NewerObject]
    /\ UNCHANGED <<optVars, fallbackRequest, position, restoreVars, slotVars,
                   cacheVars, cacheInstance, inFlight, reqVars>>

\* Other code of the service worker stores the missing object of URL u (a
\* precache or another plugin's restore): a newer version of it.
StoreFill(u) ==
    /\ ~MicrotaskPending
    /\ ~store[u].present
    /\ store' = [store EXCEPT ![u] = NewerObject]
    /\ UNCHANGED <<optVars, fallbackRequest, position, restoreVars, slotVars,
                   cacheVars, cacheInstance, inFlight, reqVars>>

InitRequestState ==
    /\ pc = [r \in Req |-> "new"]
    /\ out = [r \in Req |-> "none"]
    /\ signalAborted = [r \in Req |-> FALSE]
    /\ grant = [r \in Req |-> "none"]
    /\ keyCtrl = [r \in Req |-> 0]
    /\ result = [r \in Req |-> NoResult]
    /\ stream = [r \in Req |-> "none"]
    /\ workOf = [r \in Req |-> 0]
    /\ resp = [r \in Req |-> NoResp]
    /\ rst = [r \in Req |-> "none"]
    /\ restoreResponse = [r \in Req |-> "none"]
    /\ fallbackRequest = [r \in Req |-> NoRequest]
    /\ fullRequest = [r \in Req |-> NoRequest]
    /\ position = [r \in Req |-> 0]

InitRequests ==
    /\ rq = [r \in Req |-> NoRequest]
    /\ InitRequestState

InitState ==
    /\ urlSemaphore = <<>>
    /\ ctrlSeq = 0
    /\ abortedCtrl = {}
    /\ rangeCache = <<>>
    /\ fileMetadataCache = <<>>
    /\ cacheInstance = FALSE
    /\ inFlight = <<>>
    /\ restoreInProgress = {}

\* Spec: the admission of requests. Every URL is stored, one Range header.
Init ==
    /\ prioritizeLatestRequest \in BOOLEAN
    /\ maxConcurrentRangesPerUrl \in 1..MaxConc
    /\ maxTrackedUrls \in {0, 1}
    /\ maxCachedRanges = 1
    /\ maxCachedMetadata = 0
    /\ maxCacheableRangeSize = 0
    /\ restoreMissingToCache = FALSE
    /\ assets = NoAssets
    /\ store = [u \in Urls |-> FullObject]
    /\ InitState
    /\ InitRequests

Next ==
    \/ \E r \in Req, u \in Urls : FetchStart(r, u, HdrFirst, FALSE)
    \/ \E r \in Req : SlotResume(r)
    \/ \E r \in Req, ok \in BOOLEAN : WorkGetCache(r, ok)
    \/ \E r \in Req, ok \in BOOLEAN : WorkMatch(r, ok)
    \/ \E r \in Req : MainResume(r)
    \/ \E r \in Req : FallbackDone(r)
    \/ \E r \in Req : ClientAbort(r)
    \/ \E r \in Req : StreamRead(r)

Spec == Init /\ [][Next]_vars

(* ----------- index.ts 775-1141: the deduplicating handler --------------- *)
\* readRangeFromStream: a buffer of end - start + 1 bytes, filled from the
\* chunks that overlap the range; bytes the stream does not supply stay 0.
readRangeFromStream(body, start, end) ==
    [i \in 1..(end - start + 1) |->
        IF start + i <= Len(body) THEN body[start + i] ELSE 0]

shouldCacheRange(start, end, cap) == end - start + 1 <= cap

\* A variant that evicts only above the limit.
manageCacheSize_Strict(m) ==
    IF maxCachedRanges <= 0 THEN m
    ELSE IF Len(m) > maxCachedRanges THEN Tail(m) ELSE m

\* manageCacheSize: drops the first key of rangeCache at the limit.
manageCacheSize(m) ==
    IF maxCachedRanges <= 0 THEN m
    ELSE IF Len(m) >= maxCachedRanges THEN Tail(m) ELSE m

\* manageMetadataCacheSize of this handler: its limit is maxCachedMetadata.
DedupManageMetadataCacheSize(m) ==
    IF maxCachedMetadata <= 0 THEN m
    ELSE IF Len(m) >= maxCachedMetadata THEN Tail(m) ELSE m

\* `await workPromise` of request r can continue.
DedupSettled(r) ==
    out[r] = "pending" /\ workOf[r] # 0 /\ pc[workOf[r]] = "finished"
DedupMicrotaskPending == \E r \in Req : DedupSettled(r)

\* fetch(event) up to `await workPromise`.
DedupFetch(r, u, h) ==
    /\ ~DedupMicrotaskPending
    /\ out[r] = "none"
    /\ \A q \in Req : q < r => out[q] # "none"
    /\ rq' = [rq EXCEPT ![r] = [url |-> u, hdr |-> h, ifRange |-> NoIfRange, tag |-> NoTag]]
    /\ IF maxCachedRanges > 0 /\ MapHas(rangeCache, CacheKey(u, h))
       THEN /\ rangeCache' = getCachedRange(rangeCache, CacheKey(u, h))
            /\ out' = [out EXCEPT ![r] = "cached206"]
            /\ resp' = [resp EXCEPT ![r] =
                          CachedRangeResponse(MapGet(rangeCache, CacheKey(u, h)))]
            /\ pc' = [pc EXCEPT ![r] = "finished"]
            /\ UNCHANGED <<inFlight, workOf>>
       ELSE IF MapHas(inFlight, CacheKey(u, h))
       THEN /\ workOf' = [workOf EXCEPT ![r] =
                            MapGet(inFlight, CacheKey(u, h)).owner]
            /\ out' = [out EXCEPT ![r] = "pending"]
            /\ pc' = [pc EXCEPT ![r] = "joined"]
            /\ UNCHANGED <<rangeCache, inFlight, resp>>
       ELSE /\ workOf' = [workOf EXCEPT ![r] = r]
            /\ inFlight' = MapSet(inFlight, [key |-> CacheKey(u, h), owner |-> r])
            /\ out' = [out EXCEPT ![r] = "pending"]
            /\ pc' = [pc EXCEPT ![r] =
                        IF cacheInstance THEN "match" ELSE "getCache"]
            /\ UNCHANGED <<rangeCache, resp>>
    /\ UNCHANGED <<optVars, fallbackRequest, position, restoreVars, slotVars,
                   fileMetadataCache, cacheInstance, store, signalAborted, grant,
                   keyCtrl, result, stream>>

\* A variant that leaves the entry of the settled work in inFlight.
DedupSettle_KeepsEntry(r, res) ==
    /\ result' = [result EXCEPT ![r] = res]
    /\ pc' = [pc EXCEPT ![r] = "finished"]
    /\ inFlight' = inFlight

\* The work promise of request r settles with res.
DedupSettle(r, res) ==
    /\ result' = [result EXCEPT ![r] = res]
    /\ pc' = [pc EXCEPT ![r] = "finished"]
    /\ inFlight' = MapDelete(inFlight, CacheKey(rq[r].url, rq[r].hdr))

\* getCache(): caches.open settles.
DedupGetCache(r, ok) ==
    /\ ~DedupMicrotaskPending
    /\ pc[r] = "getCache"
    /\ cacheInstance' = ok
    /\ IF ok
       THEN /\ pc' = [pc EXCEPT ![r] = "match"]
            /\ UNCHANGED <<result, inFlight>>
       ELSE DedupSettle(r, Undef)
    /\ UNCHANGED <<optVars, fallbackRequest, position, restoreVars, slotVars,
                   cacheVars, store, rq, out, signalAborted, grant, keyCtrl, stream,
                   workOf, resp>>

\* cache.match(url) settles: the work promise up to readRangeFromStream.
DedupMatch(r, ok) ==
    /\ ~DedupMicrotaskPending
    /\ pc[r] = "match"
    /\ LET u == rq[r].url
           obj == store[u]
           size == extractMetadataFromResponse(obj)
           range == parseRangeHeader(rq[r].hdr, size)
           hasMeta == ok /\ obj.present /\ size # 0
           ifRangeOk == HasIfRange(r) =>
                            ifRangeMatches(rq[r].ifRange,
                                [etag |-> obj.etag, lastModified |-> obj.lastModified])
       IN /\ fileMetadataCache' =
                IF hasMeta /\ maxCachedMetadata > 0
                THEN MapSet(DedupManageMetadataCacheSize(fileMetadataCache),
                            [key |-> u, size |-> size, etag |-> obj.etag,
                             lastModified |-> obj.lastModified])
                ELSE fileMetadataCache
          /\ cacheInstance' = IF ~ok \/ (hasMeta /\ ifRangeOk /\ ~range.ok)
                              THEN FALSE ELSE cacheInstance
          /\ IF hasMeta /\ ifRangeOk /\ range.ok /\ obj.hasBody
             THEN /\ pc' = [pc EXCEPT ![r] = "read"]
                  /\ result' = [result EXCEPT ![r] =
                                  [kind |-> "reading", size |-> size,
                                   start |-> range.start, end |-> range.end,
                                   data |-> <<>>, etag |-> obj.etag,
                                   lastModified |-> obj.lastModified]]
                  /\ UNCHANGED inFlight
             ELSE DedupSettle(r, Undef)
    /\ UNCHANGED <<optVars, fallbackRequest, position, restoreVars, slotVars,
                   rangeCache, store, rq, out, signalAborted, grant, keyCtrl, stream,
                   workOf, resp>>

\* The reads of readRangeFromStream settle.
DedupRead(r, ok) ==
    /\ ~DedupMicrotaskPending
    /\ pc[r] = "read"
    /\ cacheInstance' = IF ok THEN cacheInstance ELSE FALSE
    /\ DedupSettle(r,
          IF ok
          THEN [result[r] EXCEPT
                  !.kind = "ok",
                  !.data = readRangeFromStream(Body(rq[r].url, store[rq[r].url].size),
                                               result[r].start, result[r].end)]
          ELSE Undef)
    /\ UNCHANGED <<optVars, fallbackRequest, position, restoreVars, slotVars,
                   cacheVars, store, rq, out, signalAborted, grant, keyCtrl, stream,
                   workOf, resp>>

\* A variant that keeps all but the last byte of the data.
RangeCacheEntry_Short(key, data, headers) ==
    [key |-> key, data |-> SubSeq(data, 1, Len(data) - 1), headers |-> headers]

\* The value of rangeCache.set(cacheKey, { data, headers }).
RangeCacheEntry(key, data, headers) ==
    [key |-> key, data |-> data, headers |-> headers]

\* fetch(event) after `await workPromise`.
DedupResume(r) ==
    /\ DedupSettled(r)
    /\ LET res == result[workOf[r]]
           key == CacheKey(rq[r].url, rq[r].hdr)
           headers == buildRangeResponseHeaders(res.start, res.end, res.size,
                                                Len(res.data))
       IN IF res.kind # "ok"
          THEN /\ out' = [out EXCEPT ![r] = "passthrough"]
               /\ UNCHANGED <<rangeCache, resp>>
          ELSE /\ rangeCache' =
                     IF maxCachedRanges > 0
                        /\ shouldCacheRange(res.start, res.end, maxCacheableRangeSize)
                     THEN MapSet(manageCacheSize(rangeCache),
                                 RangeCacheEntry(key, res.data, headers))
                     ELSE rangeCache
               /\ out' = [out EXCEPT ![r] = "response206"]
               /\ resp' = [resp EXCEPT ![r] =
                             [status |-> 206, data |-> res.data, headers |-> headers]]
    /\ UNCHANGED <<optVars, fallbackRequest, position, restoreVars, slotVars,
                   fileMetadataCache, cacheInstance, inFlight, store, rq, pc,
                   signalAborted, grant, keyCtrl, result, stream, workOf>>

\* SpecDedup: the deduplicating handler with both caches.
InitDedup ==
    /\ prioritizeLatestRequest = FALSE
    /\ maxConcurrentRangesPerUrl = 1
    /\ maxTrackedUrls = 0
    /\ maxCachedRanges \in 0..MaxCap
    /\ maxCachedMetadata \in 0..MaxCap
    /\ maxCacheableRangeSize \in 1..ObjSize
    /\ restoreMissingToCache = FALSE
    /\ assets = NoAssets
    /\ store = [u \in Urls |-> FullObject]
    /\ InitState
    /\ InitRequests

NextDedup ==
    \/ \E r \in Req, u \in Urls, h \in {HdrFirst, HdrAll} : DedupFetch(r, u, h)
    \/ \E r \in Req, ok \in BOOLEAN : DedupGetCache(r, ok)
    \/ \E r \in Req, ok \in BOOLEAN : DedupMatch(r, ok)
    \/ \E r \in Req, ok \in BOOLEAN : DedupRead(r, ok)
    \/ \E r \in Req : DedupResume(r)

SpecDedup == InitDedup /\ [][NextDedup]_vars

(* ------------------- Admission: properties of Spec --------------------- *)
\* Request r is extracting a range: the stream built by createRangeStream is
\* reading the stored object's body.
Extracting(r) == stream[r] = "reading"
\* Request r occupies a slot of its URL.
HoldsSlot(r) ==
    /\ grant[r] \in {"release", "promoted"}
    /\ pc[r] \in {"slotWait", "getCache", "match"}
\* Request r went through the waiter position of its URL.
Waited(r) ==
    grant[r] \in {"pending", "null", "abandoned", "dropped", "leaked", "promoted"}
SameUrl(q, r) == rq[q].url # 0 /\ rq[q].url = rq[r].url

\* C1: with latest-wins on, the number of active extractions of one URL never
\* exceeds maxConcurrentRangesPerUrl.
C1_ExtractionsBounded ==
    prioritizeLatestRequest =>
        \A u \in Urls :
            Cardinality({r \in Req : rq[r].url = u /\ Extracting(r)})
                <= maxConcurrentRangesPerUrl

\* C2: per URL at most one request waits for a slot: every request whose
\* acquire is still pending is the registered waiter of its URL.
C2_AtMostOneWaiter ==
    /\ \A r \in Req :
          grant[r] = "pending" =>
              /\ HasUrl(urlSemaphore, rq[r].url)
              /\ urlSemaphore[UrlIndex(urlSemaphore, rq[r].url)].nextWaiter = r
    /\ \A q, r \in Req :
          (grant[q] = "pending" /\ grant[r] = "pending" /\ SameUrl(q, r)) => q = r
    /\ \A i \in 1..Len(urlSemaphore) :
          urlSemaphore[i].nextWaiter # 0 =>
              /\ grant[urlSemaphore[i].nextWaiter] \in {"pending", "abandoned"}
              /\ rq[urlSemaphore[i].nextWaiter].url = urlSemaphore[i].url

\* A waiter stands and the waiter it displaced was told there is no slot.
C2_Witness ==
    \E q, r \in Req :
        /\ q # r /\ SameUrl(q, r)
        /\ grant[q] = "null"
        /\ grant[r] = "pending"

\* C3: a request that arrives at capacity becomes the sole waiter, the waiter
\* it displaces learns it has no slot, and a freed slot goes only to the most
\* recent of the requests that waited.
C3_LastRequestWins ==
    [][\A r \in Req :
          /\ (grant[r] # "pending" /\ grant'[r] = "pending") =>
                \A q \in Req \ {r} :
                    /\ (rq[q].url = rq'[r].url) => grant'[q] # "pending"
                    /\ (rq[q].url = rq'[r].url /\ grant[q] = "pending")
                           => grant'[q] = "null"
          /\ (grant[r] = "pending" /\ grant'[r] = "promoted") =>
                \A q \in Req \ {r} : (SameUrl(q, r) /\ Waited(q)) => q < r
      ]_vars

\* Two requests waited in turn; the slot freed later went to the second.
C3_Witness ==
    \E q, r \in Req :
        /\ q < r /\ SameUrl(q, r)
        /\ grant[q] = "null"
        /\ grant[r] = "promoted"

CurrentCtrl(sem) == {sem[i].abortController : i \in 1..Len(sem)}

\* C4: an arrival at capacity cancels every request that holds a slot of the
\* URL, and the token installed in its place is a fresh, unfired one; no
\* URL's current token is ever a fired one.
C4_Preemption ==
    [][/\ \A r \in Req :
             (grant[r] # "pending" /\ grant'[r] = "pending") =>
                 /\ \A q \in Req \ {r} :
                        (HoldsSlot(q) /\ rq[q].url = rq'[r].url)
                            => keyCtrl[q] \in abortedCtrl'
                 /\ urlSemaphore'[UrlIndex(urlSemaphore', rq'[r].url)]
                        .abortController \notin CurrentCtrl(urlSemaphore)
                                                    \cup abortedCtrl'
       /\ CurrentCtrl(urlSemaphore') \cap abortedCtrl' = {}
       /\ \A r \in Req :
             (pc[r] = "slotWait" /\ pc'[r] \in {"getCache", "match"})
                 => keyCtrl'[r] \notin abortedCtrl'
      ]_vars

\* A slot holder was cancelled by a later arrival, not by its own client.
C4_Witness ==
    \E q, r \in Req :
        /\ q < r /\ SameUrl(q, r)
        /\ HoldsSlot(q) /\ keyCtrl[q] \in abortedCtrl /\ ~signalAborted[q]
        /\ grant[r] = "pending"

\* C5: with latest-wins off, acquire is a no-op: no request waits, no URL
\* state or token exists, and only a request's own client cancels it.
C5_NoOpWhenOff ==
    ~prioritizeLatestRequest =>
        /\ urlSemaphore = <<>> /\ abortedCtrl = {} /\ ctrlSeq = 0
        /\ \A r \in Req :
              /\ grant[r] \in {"none", "noop"}
              /\ pc[r] = "slotWait" => grant[r] = "noop"
              /\ WorkSignalAborted(r) => signalAborted[r]

\* More requests than maxConcurrentRangesPerUrl work on one URL at once.
C5_Witness ==
    /\ ~prioritizeLatestRequest
    /\ \E u \in Urls :
          Cardinality({r \in Req : rq[r].url = u /\ grant[r] = "noop"
                                     /\ pc[r] \in {"getCache", "match"}})
              > maxConcurrentRangesPerUrl

(* ------------------- Caches: SpecCache and properties ------------------ *)
\* SpecCache: the latest-wins handler with admission off, over every
\* capacity of its caches.
InitCache ==
    /\ prioritizeLatestRequest = FALSE
    /\ maxConcurrentRangesPerUrl = 1
    /\ maxTrackedUrls = 0
    /\ maxCachedRanges \in 0..MaxCap
    /\ maxCachedMetadata = 0
    /\ maxCacheableRangeSize = ObjSize
    /\ restoreMissingToCache = FALSE
    /\ assets = NoAssets
    /\ store = [u \in Urls |-> FullObject]
    /\ InitState
    /\ InitRequests

SpecCache == InitCache /\ [][Next]_vars

ReqKey(r) == CacheKey(rq[r].url, rq[r].hdr)
LastKey(m) == m[Len(m)].key

\* C6: with capacity 0 neither cache ever holds an entry.
C6_CapacityZeroEmpty ==
    (maxCachedRanges = 0 /\ maxCachedMetadata = 0) =>
        (rangeCache = <<>> /\ fileMetadataCache = <<>>)

\* A step that puts a key the cache did not hold into a cache of limit n
\* keeps the cache within n, and at the limit drops exactly the first entry.
EvictsOldest(m, m2, n) ==
    /\ Len(m2) <= n
    /\ (MapKeys(m2) \ MapKeys(m) # {} /\ Len(m) >= n) =>
          /\ Len(m2) = Len(m)
          /\ SubSeq(m2, 1, Len(m2) - 1) = Tail(m)
          /\ LastKey(m2) \notin MapKeys(m)
    /\ (MapKeys(m2) \ MapKeys(m) # {} /\ Len(m) < n) =>
          /\ SubSeq(m2, 1, Len(m)) = m
          /\ Len(m2) = Len(m) + 1

\* C7: with capacity N > 0 an insertion of a new key into a full cache
\* removes exactly the oldest entry and keeps the others, and each cache
\* holds at most N entries.
C7_EvictOldest ==
    [][/\ maxCachedRanges > 0 =>
             EvictsOldest(rangeCache, rangeCache', maxCachedRanges)
       /\ maxCachedMetadata > 0 =>
             EvictsOldest(fileMetadataCache, fileMetadataCache', maxCachedMetadata)
      ]_vars

\* N + 1 distinct ranges were served and cached: the first is gone, the
\* other N are held.
C7_Witness ==
    /\ maxCachedRanges = MaxCap
    /\ Len(rangeCache) = MaxCap
    /\ \E r \in Req :
          /\ out[r] = "response206"
          /\ shouldCacheRange(result[workOf[r]].start, result[workOf[r]].end,
                              maxCacheableRangeSize)
          /\ ~MapHas(rangeCache, ReqKey(r))
          /\ \A q \in Req \ {r} :
                out[q] = "response206" /\ q > r /\ MapHas(rangeCache, ReqKey(q))

\* C8: in both caches a successful get moves the entry to the
\* most-recently-used position.
C8_GetTouches ==
    [][\A r \in Req :
          /\ (out[r] = "none" /\ out'[r] = "cached206")
                => LastKey(rangeCache') = CacheKey(rq'[r].url, rq'[r].hdr)
          /\ (pc[r] = "match" /\ pc'[r] = "finished" /\ result'[r].kind = "ok"
                /\ MapHas(fileMetadataCache, rq[r].url))
                => LastKey(fileMetadataCache') = rq[r].url
      ]_vars

\* C9: a request that hits the range cache is answered with the cached bytes
\* and headers; the step changes no admission state, no other request, no
\* work in flight, and starts no store lookup.
C9_HitBypasses ==
    [][\A r \in Req :
          (out[r] = "none" /\ out'[r] = "cached206") =>
              /\ MapHas(rangeCache, CacheKey(rq'[r].url, rq'[r].hdr))
              /\ resp'[r].status = 206
              /\ resp'[r].data =
                     MapGet(rangeCache, CacheKey(rq'[r].url, rq'[r].hdr)).data
              /\ resp'[r].headers =
                     MapGet(rangeCache, CacheKey(rq'[r].url, rq'[r].hdr)).headers
              /\ Len(resp'[r].data) > 0
              /\ UNCHANGED <<urlSemaphore, ctrlSeq, abortedCtrl, inFlight,
                             cacheInstance, fileMetadataCache, grant, keyCtrl,
                             signalAborted, stream, workOf, result>>
              /\ pc'[r] = "finished"
              /\ \A q \in Req \ {r} :
                    pc'[q] = pc[q] /\ out'[q] = out[q] /\ resp'[q] = resp[q]
      ]_vars

\* A request was answered from the range cache while the store lookup of an
\* earlier request was still in flight.
C9_Witness ==
    \E q, r \in Req :
        /\ q < r
        /\ out[r] = "cached206" /\ Len(resp[r].data) > 0
        /\ pc[q] \in {"getCache", "match", "read"}

\* C10: a request served from the store leaves an entry for its key in the
\* range cache, holding the bytes and headers of the response, when the
\* capacity is positive and the range is within maxCacheableRangeSize, and
\* inserts nothing otherwise.
C10_CacheWrite ==
    [][\A r \in Req :
          (out[r] = "pending" /\ out'[r] = "response206") =>
              IF maxCachedRanges > 0
                 /\ resp'[r].headers.contentLength <= maxCacheableRangeSize
              THEN /\ MapHas(rangeCache', ReqKey(r))
                   /\ MapGet(rangeCache', ReqKey(r)).headers = resp'[r].headers
              ELSE rangeCache' = rangeCache
      ]_vars

(* ------------------- Idempotence: property of SpecDedup ---------------- *)
\* Requests q and r carry the same url and the same Range header.
SameRequest(q, r) == rq[q].url # 0 /\ rq[q].url = rq[r].url /\ rq[q].hdr = rq[r].hdr

\* C11: for an unchanged stored object, a response served from the warm
\* range-response cache has status 206 and the same headers and the same
\* body bytes as the cold response (built from the stored object) of the
\* identical request, and as every other warm response of that request.
C11_Idempotent ==
    \A q \in Req, r \in Req :
        (/\ SameRequest(q, r)
         /\ out[q] \in {"response206", "cached206"}
         /\ out[r] = "cached206")
        => /\ resp[r].status = 206
           /\ resp[r].headers = resp[q].headers
           /\ resp[r].data = resp[q].data

\* A cold response with a body, and a later warm response of the same request.
C11_Witness ==
    \E q \in Req, r \in Req :
        /\ q # r
        /\ SameRequest(q, r)
        /\ out[q] = "response206"
        /\ out[r] = "cached206"
        /\ Len(resp[q].data) > 0
        /\ resp[r] = resp[q]

(* ------------------- If-Range: property of SpecIfRange ----------------- *)
\* SpecIfRange: the latest-wins handler with admission off, store accesses
\* that succeed, requests with and without If-Range, and stored objects that
\* can be replaced.
InitIfRange ==
    /\ prioritizeLatestRequest = FALSE
    /\ maxConcurrentRangesPerUrl = 1
    /\ maxTrackedUrls = 0
    /\ maxCachedRanges = 1
    /\ maxCachedMetadata = 1
    /\ maxCacheableRangeSize = ObjSize
    /\ restoreMissingToCache = FALSE
    /\ assets = NoAssets
    /\ store = [u \in Urls |-> FullObject]
    /\ InitState
    /\ InitRequests

\* The If-Range headers of the requests: none, blank, the entity tag and the
\* date of the first version of the objects.
IfRangeInputs ==
    {NoIfRange} \cup {v \in IfRanges : v.kind = "empty" \/ v.v = FullObject.etag}

NextIfRange ==
    \/ \E r \in Req, u \in Urls, ifr \in IfRangeInputs :
           FetchStartIf(r, u, HdrFirst, FALSE, ifr)
    \/ \E r \in Req : SlotResume(r)
    \/ \E r \in Req : WorkGetCache(r, TRUE)
    \/ \E r \in Req : WorkMatch(r, TRUE)
    \/ \E r \in Req : MainResume(r)
    \/ \E r \in Req : FallbackDone(r)
    \/ \E r \in Req : StreamRead(r)
    \/ \E u \in Urls : StoreReplace(u)

SpecIfRange == InitIfRange /\ [][NextIfRange]_vars

\* The validators of a stored object.
Validators(obj) == [etag |-> obj.etag, lastModified |-> obj.lastModified]
\* Request r carries an If-Range header.
CarriesIfRange(r) == rq[r].ifRange.kind # "none"

\* C12: a request whose If-Range value does not match the validators of the
\* stored object it is matched against never gets a range result built from
\* that object (no 206 from local content): its work promise ends without a
\* result and the request goes to the network fallback.
C12_IfRangeMismatchFallsBack ==
    [][\A r \in Req :
          (/\ pc[r] = "match"
           /\ pc'[r] = "finished"
           /\ CarriesIfRange(r)
           /\ ~ifRangeMatches(rq[r].ifRange, Validators(store[rq[r].url])))
          => result'[r].kind # "ok"]_vars

\* The same for requests whose If-Range value is not blank.
C12_NonBlankMismatchFallsBack ==
    [][\A r \in Req :
          (/\ pc[r] = "match"
           /\ pc'[r] = "finished"
           /\ HasIfRange(r)
           /\ ~ifRangeMatches(rq[r].ifRange, Validators(store[rq[r].url])))
          => result'[r].kind # "ok"]_vars

(* ------------------- Cancellation: properties of SpecAbort ------------- *)
\* SpecAbort: the latest-wins handler with one slot per URL, client signals
\* that fire before the handler starts or while it is suspended.
InitAbort ==
    /\ prioritizeLatestRequest = TRUE
    /\ maxConcurrentRangesPerUrl = 1
    /\ maxTrackedUrls = 0
    /\ maxCachedRanges = 1
    /\ maxCachedMetadata = 0
    /\ maxCacheableRangeSize = 0
    /\ restoreMissingToCache = FALSE
    /\ assets = NoAssets
    /\ store \in [Urls -> {NoEntry, FullObject}]
    /\ InitState
    /\ InitRequests

NextAbort ==
    \/ \E r \in Req, u \in Urls, ab \in BOOLEAN : FetchStart(r, u, HdrFirst, ab)
    \/ \E r \in Req : SlotResume(r)
    \/ \E r \in Req, ok \in BOOLEAN : WorkGetCache(r, ok)
    \/ \E r \in Req, ok \in BOOLEAN : WorkMatch(r, ok)
    \/ \E r \in Req : MainResume(r)
    \/ \E r \in Req : FallbackDone(r)
    \/ \E r \in Req : ClientAbort(r)
    \/ \E r \in Req : StreamRead(r)

SpecAbort == InitAbort /\ [][NextAbort]_vars

\* C13: once the client's signal of a request has fired before the handler
\* returned a response, the only outcome the handler can move to is the
\* AbortError: it returns no 206, starts no network fallback fetch and
\* returns no fallback response for that request.
C13_ClientAbortEndsInAbortError ==
    [][\A r \in Req :
          (signalAborted'[r] /\ out'[r] # out[r]) => out'[r] = "abortError"]_vars

\* One request found its signal fired on entry, one was aborted by the
\* client while it waited for a slot and one while its lookup was pending;
\* all three ended with the AbortError.
C13_Witness ==
    \E q \in Req, r \in Req, t \in Req :
        /\ out[q] = "abortError" /\ pc[q] = "finished" /\ grant[q] = "none"
        /\ out[r] = "abortError" /\ grant[r] = "abandoned"
        /\ out[t] = "abortError" /\ pc[t] \in {"getCache", "match"}

\* Request r was cancelled by admission: it was displaced as the waiter of
\* its URL (resolved with null), or the abort controller of its URL that it
\* merged into its work signal fired before its work produced a result.
Preempted(r) ==
    \/ grant[r] = "null"
    \/ keyCtrl[r] # 0 /\ keyCtrl[r] \in abortedCtrl /\ result[r].kind # "ok"

\* C14 as stated: a request cancelled by admission never reaches the network
\* fallback (it ends without a response and without a network fetch).
C14_PreemptedEndsSilently ==
    [][\A r \in Req :
          (out[r] = "pending" /\ Preempted(r)) => out'[r] # "fallback"]_vars

\* C14 amended: a request cancelled by admission gets no range result (no
\* 206 from local content), and when its handler resumes it starts the
\* network fallback fetch, or ends with the AbortError if its client signal
\* has fired.
C14_PreemptedFallsBack ==
    [][\A r \in Req :
          /\ (/\ pc[r] \in {"slotWait", "getCache", "match"}
              /\ pc'[r] = "finished"
              /\ (grant[r] = "null" \/ (keyCtrl[r] # 0 /\ keyCtrl[r] \in abortedCtrl)))
             => result'[r].kind # "ok"
          /\ (out[r] = "pending" /\ out'[r] # "pending" /\ Preempted(r))
             => out'[r] = IF signalAborted[r] THEN "abortError" ELSE "fallback"]_vars

\* A displaced waiter and a preempted occupant of a stored object, neither
\* cancelled by its client, both answered by the network fallback.
C14_Witness ==
    \E q \in Req, r \in Req :
        /\ grant[q] = "null" /\ ~signalAborted[q]
        /\ out[q] \in {"fallback", "fallbackResponse"}
        /\ keyCtrl[r] # 0 /\ keyCtrl[r] \in abortedCtrl /\ ~signalAborted[r]
        /\ store[rq[r].url] = FullObject
        /\ result[r].kind = "undef"
        /\ out[r] \in {"fallback", "fallbackResponse"}

(* ------------------- Invalid ranges: property of SpecParse -------------- *)
\* SpecParse: the latest-wins handler with admission off, stored objects,
\* store accesses that succeed, and Range headers that parse, that are
\* malformed or that end past the object.
InitParse ==
    /\ prioritizeLatestRequest = FALSE
    /\ maxConcurrentRangesPerUrl = 1
    /\ maxTrackedUrls = 0
    /\ maxCachedRanges = 1
    /\ maxCachedMetadata = 1
    /\ maxCacheableRangeSize = ObjSize
    /\ restoreMissingToCache = FALSE
    /\ assets = NoAssets
    /\ store = [u \in Urls |-> FullObject]
    /\ InitState
    /\ InitRequests

NextParse ==
    \/ \E r \in Req, u \in Urls, h \in {HdrFirst, HdrPast, NoHdr} :
           FetchStart(r, u, h, FALSE)
    \/ \E r \in Req : SlotResume(r)
    \/ \E r \in Req : WorkGetCache(r, TRUE)
    \/ \E r \in Req : WorkMatch(r, TRUE)
    \/ \E r \in Req : MainResume(r)
    \/ \E r \in Req : FallbackDone(r)
    \/ \E r \in Req : ClientAbort(r)
    \/ \E r \in Req : StreamRead(r)

SpecParse == InitParse /\ [][NextParse]_vars

\* parseRangeHeader fails for the Range header of request r and the stored
\* object of its URL.
ParseFails(r) ==
    /\ rq[r].url # 0
    /\ ~parseRangeHeader(rq[r].hdr, store[rq[r].url].size).ok

AssetsOptions == {NoAssets, [set |-> TRUE, urls |-> {}], [set |-> TRUE, urls |-> {1}]}

InitRestore ==
    /\ prioritizeLatestRequest = FALSE
    /\ maxConcurrentRangesPerUrl = 1
    /\ maxTrackedUrls = 0
    /\ maxCachedRanges = 1
    /\ maxCachedMetadata = 0
    /\ maxCacheableRangeSize = ObjSize
    /\ restoreMissingToCache \in BOOLEAN
    /\ assets \in AssetsOptions
    /\ store \in [Urls -> {NoEntry, NoBodyObject, NoLengthObject, FullObject}]
    /\ store[1] # FullObject
    /\ InitState
    /\ InitRequests

NextRestore ==
    \/ \E r \in Req, u \in Urls : FetchStart(r, u, HdrFirst, FALSE)
    \/ \E r \in Req : SlotResume(r)
    \/ \E r \in Req, ok \in BOOLEAN : WorkGetCache(r, ok)
    \/ \E r \in Req, ok \in BOOLEAN : WorkMatch(r, ok)
    \/ \E r \in Req : MainResume(r)
    \/ \E r \in Req : FallbackDone(r)
    \/ \E r \in Req : StreamRead(r)
    \/ \E r \in Req, ok \in BOOLEAN : RestoreGetCache(r, ok)
    \/ \E r \in Req, ok \in BOOLEAN : RestoreMatch(r, ok)
    \/ \E r \in Req, res \in {"ok", "notOk", "error"} : RestoreFetch(r, res)
    \/ \E r \in Req, ok \in BOOLEAN : RestorePut(r, ok)

SpecRestore == InitRestore /\ [][NextRestore]_vars

(* ------------------- Properties of SpecRestore -------------------------- *)
\* A store access of the work promise of request r fails in this step:
\* caches.open rejects, or matchByUrl rejects (the stored object would have
\* been served otherwise).
RequestAccessFails(r) ==
    \/ pc[r] = "getCache" /\ pc'[r] = "finished" /\ ~WorkSignalAborted(r)
    \/ /\ pc[r] = "match" /\ pc'[r] = "finished"
       /\ ServeFromCached(r, store[rq[r].url]).kind = "ok"
       /\ result'[r].kind = "undef"

\* A store access of the restore started by request r fails in this step:
\* caches.open rejects, matchByUrl rejects (the object is missing, so a lookup
\* that settled would have gone on to the fetch), or cache.put rejects (the
\* object is still missing afterwards).
RestoreAccessFails(r) ==
    \/ rst[r] = "getCache" /\ rst'[r] = "done"
    \/ rst[r] = "match" /\ rst'[r] = "done" /\ ~store[rq[r].url].present
    \/ rst[r] = "put" /\ rst'[r] = "done" /\ ~store'[rq[r].url].present

\* C16: every store access error, in the request path or in a background
\* restore, leaves the shared store handle invalid, and a request whose
\* lookup failed gets no range result (it goes to the network fallback).
C16_AccessErrorInvalidatesHandle ==
    [][\A r \in Req :
          /\ (RequestAccessFails(r) \/ RestoreAccessFails(r)) => ~cacheInstance'
          /\ RequestAccessFails(r) => result'[r].kind = "undef"]_vars

\* The request-path half of C16 alone.
C16_RequestPathInvalidatesHandle ==
    [][\A r \in Req :
          RequestAccessFails(r) => (~cacheInstance' /\ result'[r].kind = "undef")]_vars

\* The three miss conditions of a stored object: absent, without a body,
\* without a usable Content-Length.
MissingObject(obj) == ~obj.present
NoBody(obj) == obj.present /\ ~obj.hasBody
MissingMetadata(obj) == obj.present /\ extractMetadataFromResponse(obj) = 0
Miss(r) ==
    /\ rq[r].url # 0
    /\ \/ MissingObject(store[rq[r].url])
       \/ NoBody(store[rq[r].url])
       \/ MissingMetadata(store[rq[r].url])

\* The lookup of request r settles in this step and leaves a valid handle.
LookupSettles(r) == pc[r] = "match" /\ pc'[r] = "finished" /\ cacheInstance'

\* C17 as stated: with restore-on-miss on (and the URL allowed), each of the
\* three miss conditions leaves a restore of the URL in flight.
C17_EveryMissRestores ==
    [][\A r \in Req :
          (/\ LookupSettles(r)
           /\ Miss(r)
           /\ restoreMissingToCache
           /\ RestoreAllowed(rq[r].url))
          => rq[r].url \in restoreInProgress']_vars

\* C17 amended: each of the three miss conditions gives no range result and
\* the request is answered by the network fallback; with restore-on-miss on
\* an absent object leaves a restore of its URL in flight, and a stored
\* response without a body or without usable metadata starts none.
C17_MissFallsBack ==
    [][\A r \in Req :
          /\ (pc[r] = "match" /\ pc'[r] = "finished" /\ Miss(r))
             => result'[r].kind = "undef"
          /\ (Miss(r) /\ out[r] = "pending" /\ out'[r] # "pending")
             => out'[r] = "fallback"
          /\ (/\ LookupSettles(r)
              /\ MissingObject(store[rq[r].url])
              /\ restoreMissingToCache
              /\ RestoreAllowed(rq[r].url))
             => rq[r].url \in restoreInProgress'
          /\ (rq[r].url # 0 /\ ~MissingObject(store[rq[r].url]))
             => (rst'[r] = rst[r] \/ rst[r] # "none")]_vars

\* With restore-on-miss on: a request for a stored response that has no body
\* or no usable length, answered by the fallback with no restore started, and
\* a request for an absent object, answered by the fallback with a restore
\* started.
C17_Witness ==
    \E q \in Req, r \in Req :
        /\ restoreMissingToCache
        /\ rq[q].url # 0 /\ rq[r].url # 0
        /\ RestoreAllowed(rq[q].url)
        /\ NoBody(store[rq[q].url]) \/ MissingMetadata(store[rq[q].url])
        /\ out[q] = "fallbackResponse" /\ rst[q] = "none"
        /\ rq[q].url \notin restoreInProgress
        /\ MissingObject(store[rq[r].url])
        /\ out[r] = "fallbackResponse" /\ rst[r] \in {"match", "fetch", "put"}

RestoreStages == {"getCache", "match", "fetch", "put"}
\* The requests whose restore of URL u is in flight.
Restoring(u) == {r \in Req : rq[r].url = u /\ rst[r] \in RestoreStages}

\* C19: at most one restore per URL is in flight at any time, a URL is in
\* restoreInProgress exactly while its restore is in flight, and a request
\* that misses while the URL is in restoreInProgress starts nothing.
C19_OneRestorePerKey ==
    \A u \in Urls :
        /\ Cardinality(Restoring(u)) <= 1
        /\ u \in restoreInProgress <=> Restoring(u) # {}

\* Three requests missed the same absent object with restore-on-miss on: the
\* restore started by the first is fetching, the other two went to the
\* fallback and started none.
C19_Witness ==
    \E u \in Urls :
        /\ restoreMissingToCache /\ RestoreAllowed(u)
        /\ MissingObject(store[u])
        /\ cacheInstance
        /\ \A r \in Req : rq[r].url = u /\ out[r] \in {"fallback", "fallbackResponse"}
        /\ \E q \in Req : rst[q] = "fetch" /\ \A r \in Req \ {q} : rst[r] = "none"

(* ------------------- Liveness of the restore: SpecRestoreFair ----------- *)
\* The event loop runs every pending continuation, and every operation on
\* the Cache Storage that the restore awaits settles; nothing makes the
\* network answer the restore's fetch.
Continuation == \E r \in Req : SlotResume(r) \/ MainResume(r)
RestoreStoreStep(u) ==
    \E r \in Req, ok \in BOOLEAN :
        /\ rq[r].url = u
        /\ RestoreGetCache(r, ok) \/ RestoreMatch(r, ok) \/ RestorePut(r, ok)
RestoreFairness ==
    /\ WF_vars(Continuation)
    /\ \A u \in Urls : SF_vars(RestoreStoreStep(u))

\* SpecRestoreFair: restore-on-miss on, no assets list, every object absent.
InitRestoreFair ==
    /\ InitRestore
    /\ restoreMissingToCache
    /\ assets = NoAssets
    /\ store = [u \in Urls |-> NoEntry]

SpecRestoreFair == InitRestoreFair /\ [][NextRestore]_vars /\ RestoreFairness

\* The restore of URL u awaits the answer of the network.
FetchPending(u) == \E r \in Restoring(u) : rst[r] = "fetch"
\* The restore of URL u got its answer and awaits cache.put.
PutPending(u) == \E r \in Restoring(u) : rst[r] = "put"

\* C20 as stated: every URL added to restoreInProgress is eventually removed
\* from it, also when its restore is wedged.
C20_EventuallyRemoved ==
    \A u \in Urls : (u \in restoreInProgress) ~> (u \notin restoreInProgress)

\* C20 amended: a URL in restoreInProgress is eventually removed from it or
\* its restore awaits the network, and once the network has answered
\* (whatever the put goes on to) the URL is eventually removed.
C20_RemovedWhenSettled ==
    \A u \in Urls :
        /\ (u \in restoreInProgress) ~> (u \notin restoreInProgress \/ FetchPending(u))
        /\ PutPending(u) ~> (u \notin restoreInProgress)

\* A restore of a URL ended without storing the object, its URL left
\* restoreInProgress, and a later miss started a new restore of that URL.
C20_Witness ==
    \E q \in Req, r \in Req :
        /\ q < r
        /\ rq[q].url = rq[r].url
        /\ rst[q] = "done"
        /\ rst[r] \in RestoreStages
        /\ MissingObject(store[rq[r].url])

(* ------------------- Restore and the triggering request ---------------- *)
\* C21: while the restore that request r started is in flight, the work of r
\* has already ended without a result, and the handler of r never waits for
\* the restore: its continuation can run, its fallback fetch can settle and
\* return the response, whatever stage the restore is in.
C21_RestoreNeverBlocks ==
    \A r \in Req :
        rst[r] \in RestoreStages
        => /\ pc[r] = "finished"
           /\ result[r].kind = "undef"
           /\ out[r] \in {"pending", "fallback", "fallbackResponse"}
           /\ out[r] = "pending" => ENABLED MainResume(r)
           /\ (out[r] = "fallback" /\ ~MicrotaskPending) => ENABLED FallbackDone(r)

\* The triggering request has its fallback response while its restore still
\* awaits the network.
C21_Witness ==
    \E r \in Req : out[r] = "fallbackResponse" /\ rst[r] = "fetch"

(* ------------------- Restore race guard: SpecRestoreRace ---------------- *)
\* SpecRestoreRace: restore-on-miss on, every object absent at first, other
\* code that may store a missing object at any time, and restores whose
\* store accesses, fetch and put succeed.
NextRestoreRace ==
    \/ \E r \in Req, u \in Urls : FetchStart(r, u, HdrFirst, FALSE)
    \/ \E r \in Req : SlotResume(r)
    \/ \E r \in Req, ok \in BOOLEAN : WorkGetCache(r, ok)
    \/ \E r \in Req, ok \in BOOLEAN : WorkMatch(r, ok)
    \/ \E r \in Req : MainResume(r)
    \/ \E r \in Req : FallbackDone(r)
    \/ \E r \in Req : StreamRead(r)
    \/ \E r \in Req : RestoreGetCache(r, TRUE)
    \/ \E r \in Req : RestoreMatch(r, TRUE)
    \/ \E r \in Req : RestoreFetch(r, "ok")
    \/ \E r \in Req : RestorePut(r, TRUE)
    \/ \E u \in Urls : StoreFill(u)

SpecRestoreRace == InitRestoreFair /\ [][NextRestoreRace]_vars

\* C22: a restore reaches its fetch only from its store lookup and only when
\* that lookup found the object missing; when the lookup finds the object
\* present the restore ends in that step, and neither it nor any later step
\* of it fetches or writes the store.
C22_RaceGuard ==
    [][\A r \in Req :
          /\ (rst'[r] = "fetch" /\ rst[r] # "fetch")
             => (rst[r] = "match" /\ ~store[rq[r].url].present)
          /\ (rst[r] = "match" /\ rst'[r] # "match" /\ store[rq[r].url].present)
             => (rst'[r] = "done" /\ store' = store)
          /\ rst[r] = "done" => rst'[r] = "done"]_vars

\* A restore ended while the store holds the object written by other code:
\* in this specification a restore that goes past its lookup always ends by
\* writing its own copy, so this one stopped at the lookup.
C22_Witness ==
    \E r \in Req :
        /\ rst[r] = "done"
        /\ store[rq[r].url] = NewerObject

(* ------------------- C23: a restore writes only after success ---------- *)
\* The restore started by request r takes a step.
RestoreSteps(r) == rst[r] \in RestoreStages /\ rst'[r] # rst[r]

\* C23: a restore writes into the store only after its full GET returned a
\* successful response: the stored object of a URL changes only in the
\* settling of the put of a restore of that URL whose response was ok, and
\* a restore whose fetch did not return an ok response ends there without a
\* write.  Every failure is swallowed: a failed store access, fetch or put
\* ends the restore with the store unchanged, and no step of a restore
\* changes the outcome, the result or the position of any request.
C23_WritesOnlyAfterSuccess ==
    [][/\ \A u \in Urls :
             store'[u] # store[u]
             => /\ store'[u] = FullObject
                /\ \E r \in Req : /\ rq[r].url = u
                                   /\ rst[r] = "put" /\ rst'[r] = "done"
                                   /\ restoreResponse[r] = "ok"
       /\ \A r \in Req :
             /\ (rst[r] = "fetch" /\ rst'[r] # "fetch" /\ restoreResponse'[r] # "ok")
                => (rst'[r] = "done" /\ store' = store)
             /\ (rst'[r] = "put" /\ rst[r] # "put") => rst[r] = "fetch"
             /\ RestoreSteps(r)
                => (out' = out /\ result' = result /\ pc' = pc /\ resp' = resp)]_vars

\* One restore ended after a failure with its object still absent and its
\* request answered by the fallback, and another restore stored its object.
C23_Witness ==
    \E r, q \in Req :
        /\ rst[r] = "done" /\ rq[r].url # 0 /\ ~store[rq[r].url].present
        /\ out[r] = "fallbackResponse"
        /\ rst[q] = "done" /\ rq[q].url # 0 /\ store[rq[q].url] = FullObject

(* ------------------- C24: the passthrough header ------------------------ *)
\* SpecPassthrough: restore-on-miss on, one object absent, one stored, requests
\* with and without the passthrough header and with and without Range.
InitPassthrough ==
    /\ prioritizeLatestRequest = FALSE
    /\ maxConcurrentRangesPerUrl = 1
    /\ maxTrackedUrls = 0
    /\ maxCachedRanges = 1
    /\ maxCachedMetadata = 0
    /\ maxCacheableRangeSize = ObjSize
    /\ restoreMissingToCache = TRUE
    /\ assets = NoAssets
    /\ store = [u \in Urls |-> IF u = 1 THEN NoEntry ELSE FullObject]
    /\ InitState
    /\ InitRequests

NextPassthrough ==
    \/ \E r \in Req, u \in Urls, h \in {HdrFirst, HdrPast, NoRange}, t \in Tags :
          FetchStartTag(r, u, h, FALSE, NoIfRange, t)
    \/ \E r \in Req : SlotResume(r)
    \/ \E r \in Req : WorkGetCache(r, TRUE)
    \/ \E r \in Req : WorkMatch(r, TRUE)
    \/ \E r \in Req : MainResume(r)
    \/ \E r \in Req : FallbackDone(r)
    \/ \E r \in Req : StreamRead(r)
    \/ \E r \in Req : RestoreGetCache(r, TRUE)
    \/ \E r \in Req : RestoreMatch(r, TRUE)
    \/ \E r \in Req : RestoreFetch(r, "ok")
    \/ \E r \in Req : RestorePut(r, TRUE)

SpecPassthrough == InitPassthrough /\ [][NextPassthrough]_vars

\* Request r arrives in this step with the passthrough header set.
TaggedArrives(r) == out[r] = "none" /\ out'[r] # "none" /\ HasPassthrough(rq'[r].tag)

\* C24: every request the handler sends to the network has the passthrough
\* header: the fallback request, sent exactly when the fallback starts, has
\* it together with the URL and the Range header value of the request, and
\* the restore's request, sent exactly when the restore goes to its fetch,
\* has it with the URL of the request.  A request that arrives with the
\* passthrough header set is returned at once with no answer of the handler:
\* no slot, cache, store or restore variable changes in that step, nothing
\* is sent, and the request never takes a later step.
C24_PassthroughTag ==
    [][\A r \in Req :
          /\ (out'[r] = "fallback" /\ out[r] # "fallback")
             => /\ fallbackRequest'[r].tag = "1"
                /\ fallbackRequest'[r].hdr = rq[r].hdr
                /\ fallbackRequest'[r].url = rq[r].url
          /\ fallbackRequest'[r] # fallbackRequest[r]
             => (out'[r] = "fallback" /\ out[r] # "fallback")
          /\ (rst'[r] = "fetch" /\ rst[r] # "fetch")
             => (fullRequest'[r].tag = "1" /\ fullRequest'[r].url = rq[r].url)
          /\ fullRequest'[r] \notin {fullRequest[r], NoRequest}
             => (rst'[r] = "fetch" /\ rst[r] # "fetch")
          /\ TaggedArrives(r)
             => /\ out'[r] = "passthrough" /\ pc'[r] = "finished"
                /\ UNCHANGED <<slotVars, cacheVars, cacheInstance, inFlight, store,
                               restoreVars, fallbackRequest, signalAborted, grant,
                               keyCtrl, result, stream, workOf, resp>>
          /\ (out[r] # "none" /\ HasPassthrough(rq[r].tag))
             => /\ out'[r] = out[r] /\ pc'[r] = pc[r] /\ grant'[r] = grant[r]
                /\ rst'[r] = "none" /\ result'[r] = NoResult
                /\ fallbackRequest'[r] = NoRequest /\ fullRequest'[r] = NoRequest]_vars

\* A request that had the passthrough header was returned untouched, the
\* fallback of a request whose range is past the end of its object sent that
\* Range header with the passthrough header, and a restore is at its fetch
\* with its request sent.
C24_Witness ==
    \E r, q, p \in Req :
        /\ rq[r].tag = "1" /\ rq[r].hdr = HdrFirst /\ out[r] = "passthrough"
        /\ rq[q].tag = NoTag /\ out[q] = "fallback"
        /\ fallbackRequest[q] = [url |-> rq[q].url, hdr |-> HdrPast,
                                 ifRange |-> NoIfRange, tag |-> "1"]
        /\ rst[p] = "fetch" /\ fullRequest[p] = RestoreRequest(rq[p].url)

(* ------------------- C25: parseRangeHeader ------------------------------ *)
\* SpecParseRange: parseRangeHeader applied to the Range header of request 1
\* and to every object size up to MaxParse.
MaxParse == 3
ParseHdrs ==
    {[form |-> "se", a |-> a, b |-> b] : a, b \in 0..MaxParse}
        \cup {[form |-> f, a |-> a, b |-> 0] : f \in {"s", "suffix"}, a \in 0..MaxParse}
        \cup {NoHdr}

InitParseRange ==
    /\ prioritizeLatestRequest = FALSE
    /\ maxConcurrentRangesPerUrl = 1
    /\ maxTrackedUrls = 0
    /\ maxCachedRanges = 1
    /\ maxCachedMetadata = 1
    /\ maxCacheableRangeSize = ObjSize
    /\ restoreMissingToCache = FALSE
    /\ assets = NoAssets
    /\ store = [u \in Urls |-> FullObject]
    /\ InitState
    /\ InitRequestState
    /\ \E h \in ParseHdrs :
          rq = [r \in Req |-> IF r = 1 THEN [NoRequest EXCEPT !.url = 1, !.hdr = h]
                              ELSE NoRequest]

\* parseRangeHeader(rangeHeader, fullSize) returns a range or throws.
ParseRange(fullSize) ==
    /\ result' = [result EXCEPT ![1] =
                     LET p == parseRangeHeader(rq[1].hdr, fullSize)
                     IN IF p.ok
                        THEN [NoResult EXCEPT !.kind = "ok", !.size = fullSize,
                                              !.start = p.start, !.end = p.end]
                        ELSE [NoResult EXCEPT !.kind = "error", !.size = fullSize]]
    /\ UNCHANGED <<optVars, fallbackRequest, position, restoreVars, slotVars, cacheVars,
                   cacheInstance, inFlight, store, rq, pc, out, signalAborted, grant,
                   keyCtrl, stream, workOf, resp>>

NextParseRange == \E fullSize \in 0..MaxParse : ParseRange(fullSize)

SpecParseRange == InitParseRange /\ [][NextParseRange]_vars

\* C25: every range that parseRangeHeader returns satisfies
\* 0 <= start <= end < fullSize; in particular it returns no range, whatever
\* the form of the header, when fullSize = 0.
C25_RangeWithinBounds ==
    result[1].kind = "ok"
    => /\ 0 <= result[1].start
       /\ result[1].start <= result[1].end
       /\ result[1].end < result[1].size

\* The same for the objects that are not empty.
C25_NonEmptyWithinBounds ==
    (result[1].kind = "ok" /\ result[1].size > 0)
    => /\ 0 <= result[1].start
       /\ result[1].start <= result[1].end
       /\ result[1].end < result[1].size

\* The same for the forms start-end and start-.
C25_StartFormsWithinBounds ==
    (result[1].kind = "ok" /\ rq[1].hdr.form # "suffix")
    => /\ 0 <= result[1].start
       /\ result[1].start <= result[1].end
       /\ result[1].end < result[1].size

(* ------------------- The range stream, chunk by chunk ------------------- *)
\* SpecStream: one request for a stored object of StreamSize bytes, every
\* Range header of ParseHdrs, every split of the body into chunks.
StreamSize == 4
StreamObject == [FullObject EXCEPT !.size = StreamSize]

InitStream ==
    /\ prioritizeLatestRequest = FALSE
    /\ maxConcurrentRangesPerUrl = 1
    /\ maxTrackedUrls = 0
    /\ maxCachedRanges = 0
    /\ maxCachedMetadata = 1
    /\ maxCacheableRangeSize = ObjSize
    /\ restoreMissingToCache = FALSE
    /\ assets = NoAssets
    /\ store = [u \in Urls |-> StreamObject]
    /\ InitState
    /\ InitRequests

NextStream ==
    \/ \E h \in ParseHdrs : FetchStart(1, 1, h, FALSE)
    \/ \E r \in Req : SlotResume(r)
    \/ \E r \in Req : WorkGetCache(r, TRUE)
    \/ \E r \in Req : WorkMatch(r, TRUE)
    \/ \E r \in Req : MainResume(r)
    \/ \E r \in Req : FallbackDone(r)
    \/ \E r \in Req : ClientAbort(r)
    \/ \E r \in Req, len \in 0..StreamSize : PullChunk(r, len)
    \/ \E r \in Req : PullDone(r)
    \/ \E r \in Req : ConsumerRead(r)

SpecStream == InitStream /\ [][NextStream]_vars

\* The signal of the range stream of request r has not fired.
NotCancelled(r) == ~WorkSignalAborted(r)

\* C26: a request with a valid range [start, end] on a stored object of S
\* bytes, served without cancellation, is answered with status 206,
\* Content-Range "bytes start-end/S" and Content-Length end-start+1, and when
\* its stream has closed the body is the bytes start..end of the object,
\* however the stored body was split into chunks.
C26_RangeServed ==
    \A r \in Req :
        (out[r] = "response206" /\ NotCancelled(r))
        => LET S == store[rq[r].url].size
               range == parseRangeHeader(rq[r].hdr, S)
           IN /\ range.ok
              /\ resp[r].status = 206
              /\ resp[r].headers.contentRange = <<range.start, range.end, S>>
              /\ resp[r].headers.contentLength = range.end - range.start + 1
              /\ stream[r] = "closed"
                 => resp[r].data = SubSeq(Body(rq[r].url, S), range.start + 1,
                                          range.end + 1)
              /\ stream[r] # "closed"
                 => /\ Len(resp[r].data) <= range.end - range.start + 1
                    /\ resp[r].data = SubSeq(Body(rq[r].url, S), range.start + 1,
                                             range.start + Len(resp[r].data))

\* The two middle bytes of the object have been served and the stream has
\* closed after reading the body to its end.
C26_Witness ==
    \E r \in Req :
        /\ out[r] = "response206" /\ NotCancelled(r) /\ stream[r] = "closed"
        /\ rq[r].hdr = [form |-> "se", a |-> 1, b |-> 2]
        /\ resp[r].data = <<12, 13>>
        /\ position[r] = StreamSize

\* The number of bytes of the range of request r.
RangeSize(r) == result[r].end - result[r].start + 1

\* C27: the range stream never reads the source past what is needed: no
\* read of the source is pending once the last byte of the range has been
\* produced, and a stream that has closed has released or cancelled its
\* reader of the source.
C27_NoReadPastRange ==
    \A r \in Req :
        out[r] = "response206"
        => /\ stream[r] = "reading" => Len(resp[r].data) < RangeSize(r)
           /\ stream[r] = "closed" => ReaderState(r) \in {"cancelled", "released"}

\* The first half alone: no read is pending once the range is complete.
C27_NoReadOnceComplete ==
    \A r \in Req :
        (out[r] = "response206" /\ stream[r] = "reading")
        => Len(resp[r].data) < RangeSize(r)

\* The second half alone: a closed stream has let go of its reader.
C27_ClosedLetsGo ==
    \A r \in Req :
        (out[r] = "response206" /\ stream[r] = "closed")
        => ReaderState(r) \in {"cancelled", "released"}

\* What does hold: the stream reads at most one chunk after the one that
\* held the last byte of the range, and produces nothing from it.
C27_AtMostOneReadPast ==
    [][\A r \in Req :
          (out[r] = "response206" /\ stream[r] = "reading"
           /\ Len(resp[r].data) = RangeSize(r) /\ stream'[r] # stream[r])
          => (stream'[r] = "closed" /\ resp'[r] = resp[r])]_vars

(* ------------------- C28: the working signal and the stream ------------- *)
\* SpecStreamAbort: latest-wins with one slot per URL, requests for the two
\* middle bytes of one stored object, clients that abort, and range streams
\* read chunk by chunk.
HdrMiddle == [form |-> "se", a |-> 1, b |-> 2]

InitStreamAbort ==
    /\ prioritizeLatestRequest = TRUE
    /\ maxConcurrentRangesPerUrl = 1
    /\ maxTrackedUrls = 0
    /\ maxCachedRanges = 0
    /\ maxCachedMetadata = 1
    /\ maxCacheableRangeSize = ObjSize
    /\ restoreMissingToCache = FALSE
    /\ assets = NoAssets
    /\ store = [u \in Urls |-> StreamObject]
    /\ InitState
    /\ InitRequests

NextStreamAbort ==
    \/ \E r \in Req : FetchStart(r, 1, HdrMiddle, FALSE)
    \/ \E r \in Req : SlotResume(r)
    \/ \E r \in Req : WorkGetCache(r, TRUE)
    \/ \E r \in Req : WorkMatch(r, TRUE)
    \/ \E r \in Req : MainResume(r)
    \/ \E r \in Req : FallbackDone(r)
    \/ \E r \in Req : ClientAbort(r)
    \/ \E r \in Req, len \in 0..StreamSize : PullChunk(r, len)
    \/ \E r \in Req : PullDone(r)
    \/ \E r \in Req : ConsumerRead(r)

SpecStreamAbort == InitStreamAbort /\ [][NextStreamAbort]_vars

\* A source of the working signal of request r fires in this step: the
\* signal of the client (which also aborts the controller of the request),
\* or the controller of its URL that the request merged when it was admitted.
SourceFires(r) ==
    \/ ~signalAborted[r] /\ signalAborted'[r]
    \/ keyCtrl[r] # 0 /\ keyCtrl[r] \notin abortedCtrl /\ keyCtrl[r] \in abortedCtrl'

\* C28: the working signal of an admitted request has fired as soon as one
\* of its sources has, and from then on the range stream is stopped: in the
\* very step in which a source fires, a pending read of the stored body is
\* cancelled (the stream is no longer reading), no read is pending or
\* started while the signal is fired, and no further byte is produced.
C28_SignalStopsStream ==
    [][\A r \in Req :
          /\ SourceFires(r)
             => /\ WorkSignalAborted(r)'
                /\ stream'[r] # "reading"
                /\ stream[r] = "reading" => stream'[r] = "closed"
          /\ WorkSignalAborted(r)
             => /\ stream[r] # "reading" /\ stream'[r] # "reading"
                /\ resp'[r].data = resp[r].data
                /\ position'[r] = position[r]]_vars

\* The stream of a request was cut short by the controller of its URL while
\* it was reading, with a part of the range produced, and the stream of
\* another one by the signal of its client.
C28_Witness ==
    \E r, q \in Req :
        /\ ~signalAborted[r] /\ keyCtrl[r] \in abortedCtrl
        /\ stream[r] = "closed" /\ Len(resp[r].data) = 1 /\ position[r] < StreamSize
        /\ signalAborted[q] /\ stream[q] = "closed" /\ out[q] = "response206"
        /\ Len(resp[q].data) < RangeSize(q)

(* ------------------- C29: eviction from the admission table ------------- *)
\* Request r holds a slot of its URL or is the waiter of its URL.
HoldsOrWaits(r) ==
    /\ prioritizeLatestRequest
    /\ \/ pc[r] = "slotWait" /\ grant[r] = "pending"
       \/ pc[r] \in {"getCache", "match"}

\* C29: the table of URL states never loses an entry that has active or
\* waiting work: an entry leaves the table only in a step that finds it with
\* count 0 and no waiter, a request that holds a slot or waits always finds
\* its URL in the table, and when no entry is idle a new URL is added with
\* every entry kept, the table growing past maxTrackedUrls.
C29_EvictsOnlyIdle ==
    [][/\ \A i \in 1..Len(urlSemaphore) :
             ~HasUrl(urlSemaphore', urlSemaphore[i].url) => UrlIdle(urlSemaphore[i])
       /\ \A r \in Req : HoldsOrWaits(r)' => HasUrl(urlSemaphore', rq'[r].url)
       /\ (FirstIdle(urlSemaphore) = 0 /\ urlSemaphore' # urlSemaphore)
          => /\ Len(urlSemaphore') >= Len(urlSemaphore)
             /\ \A i \in 1..Len(urlSemaphore) :
                   urlSemaphore'[i].url = urlSemaphore[i].url]_vars

\* The table holds more URLs than maxTrackedUrls, none of them idle.
C29_Witness ==
    /\ maxTrackedUrls > 0
    /\ Len(urlSemaphore) > maxTrackedUrls
    /\ \A i \in 1..Len(urlSemaphore) : ~UrlIdle(urlSemaphore[i])

\* An idle entry has been evicted to make room for another URL.
C29_EvictedIdle ==
    /\ maxTrackedUrls > 0
    /\ Len(urlSemaphore) = 1
    /\ \E r \in Req : /\ rq[r].url # 0 /\ grant[r] \in {"release", "promoted"}
                       /\ ~HasUrl(urlSemaphore, rq[r].url)

(* ------------------- C30: cached metadata and the object served --------- *)
\* SpecMetadata: the metadata cache on, stored objects of ObjSize or
\* StreamSize bytes that other code replaces by one of the other length.
StoreResize(u) ==
    /\ ~MicrotaskPending
    /\ store[u] \in {FullObject, StreamObject}
    /\ store' = [store EXCEPT ![u] = IF @ = FullObject THEN StreamObject
                                     ELSE FullObject]
    /\ UNCHANGED <<optVars, fallbackRequest, position, restoreVars, slotVars,
                   cacheVars, cacheInstance, inFlight, reqVars>>

InitMetadata ==
    /\ prioritizeLatestRequest = FALSE
    /\ maxConcurrentRangesPerUrl = 1
    /\ maxTrackedUrls = 0
    /\ maxCachedRanges = 0
    /\ maxCachedMetadata = 1
    /\ maxCacheableRangeSize = ObjSize
    /\ restoreMissingToCache = FALSE
    /\ assets = NoAssets
    /\ store \in [Urls -> {FullObject, StreamObject}]
    /\ InitState
    /\ InitRequests

NextMetadata ==
    \/ \E r \in Req, u \in Urls, h \in {HdrAll, HdrPast} : FetchStart(r, u, h, FALSE)
    \/ \E r \in Req : SlotResume(r)
    \/ \E r \in Req : WorkGetCache(r, TRUE)
    \/ \E r \in Req : WorkMatch(r, TRUE)
    \/ \E r \in Req : MainResume(r)
    \/ \E r \in Req : FallbackDone(r)
    \/ \E r \in Req : StreamRead(r)
    \/ \E u \in Urls : StoreResize(u)

SpecMetadata == InitMetadata /\ [][NextMetadata]_vars

\* The entry of fileMetadataCache for URL u disagrees in size with the
\* stored object of u.
StaleSize(u) ==
    /\ MapHas(fileMetadataCache, u)
    /\ MapGet(fileMetadataCache, u).size # store[u].size

\* C30: the metadata a request is served with has the size of the stored
\* response it is served from: the work promise takes the cached entry only
\* when its size is the Content-Length of that response and else the headers
\* of the response, so the range is the Range header parsed against the size
\* of the object read, and Content-Range carries that size.
C30_SizeOfObjectRead ==
    [][\A r \in Req :
          /\ (pc[r] = "match" /\ result'[r].kind = "ok")
             => LET obj == store[rq[r].url]
                    range == parseRangeHeader(rq[r].hdr, obj.size)
                IN /\ result'[r].size = obj.size
                   /\ range.ok
                   /\ result'[r].start = range.start /\ result'[r].end = range.end
          /\ (pc[r] = "match" /\ pc'[r] # "match" /\ StaleSize(rq[r].url)
              /\ result'[r].kind = "ok")
             => /\ result'[r].etag = store[rq[r].url].etag
                /\ result'[r].lastModified = store[rq[r].url].lastModified
          /\ (out'[r] = "response206" /\ out[r] # "response206")
             => resp'[r].headers.contentRange
                   = <<result[r].start, result[r].end, result[r].size>>]_vars

\* A request has been served from an object of StreamSize bytes while the
\* metadata cache still held the entry of the ObjSize bytes the URL had.
C30_Witness ==
    \E r \in Req :
        /\ result[r].kind = "ok" /\ result[r].size = StreamSize
        /\ result[r].end = StreamSize - 1
        /\ MapHas(fileMetadataCache, rq[r].url)
        /\ MapGet(fileMetadataCache, rq[r].url).size = ObjSize

(* ------------ C31: the range cache and a replaced stored object --------- *)
\* SpecDedupResize: the deduplicating handler with its range cache on, over
\* stored objects of ObjSize or StreamSize bytes that other code replaces
\* by one of the other length.
DedupStoreResize(u) ==
    /\ ~DedupMicrotaskPending
    /\ store' = [store EXCEPT ![u] = IF @ = FullObject THEN StreamObject
                                     ELSE FullObject]
    /\ UNCHANGED <<optVars, fallbackRequest, position, restoreVars, slotVars,
                   cacheVars, cacheInstance, inFlight, reqVars>>

InitDedupResize ==
    /\ prioritizeLatestRequest = FALSE
    /\ maxConcurrentRangesPerUrl = 1
    /\ maxTrackedUrls = 0
    /\ maxCachedRanges \in 1..MaxCap
    /\ maxCachedMetadata = 0
    /\ maxCacheableRangeSize = ObjSize
    /\ restoreMissingToCache = FALSE
    /\ assets = NoAssets
    /\ store \in [Urls -> {FullObject, StreamObject}]
    /\ InitState
    /\ InitRequests

NextDedupResize ==
    \/ \E r \in Req, u \in Urls, h \in {HdrFirst, HdrAll} : DedupFetch(r, u, h)
    \/ \E r \in Req : DedupGetCache(r, TRUE)
    \/ \E r \in Req : DedupMatch(r, TRUE)
    \/ \E r \in Req : DedupRead(r, TRUE)
    \/ \E r \in Req : DedupResume(r)
    \/ \E u \in Urls : DedupStoreResize(u)

SpecDedupResize == InitDedupResize /\ [][NextDedupResize]_vars

\* C31: a request answered from the range cache gets the bytes and the
\* Content-Range total of the object its URL has in the store at that time:
\* once the stored object has been replaced by one of another size, no
\* answer carries the range or the total of the object it replaced.
C31_NoStaleRange ==
    [][\A r \in Req :
          (out[r] = "none" /\ out'[r] = "cached206")
          => LET obj == store[rq'[r].url]
                 range == parseRangeHeader(rq'[r].hdr, obj.size)
             IN /\ resp'[r].headers.contentRange
                      = <<range.start, range.end, obj.size>>
                /\ resp'[r].data
                      = readRangeFromStream(Body(rq'[r].url, obj.size),
                                            range.start, range.end)]_vars

(* ------------- C32: the size of the admission table --------------------- *)
\* SpecTrack: latest-wins admission with maxTrackedUrls = 1 and one URL more
\* than the other specifications have, so that a new URL can arrive while
\* the table already holds more than maxTrackedUrls entries.
TrackUrls == 1..(NUrls + 1)

InitTrack ==
    /\ prioritizeLatestRequest = TRUE
    /\ maxConcurrentRangesPerUrl = 1
    /\ maxTrackedUrls = 1
    /\ maxCachedRanges = 0
    /\ maxCachedMetadata = 0
    /\ maxCacheableRangeSize = 0
    /\ restoreMissingToCache = FALSE
    /\ assets = NoAssets
    /\ store = [u \in TrackUrls |-> FullObject]
    /\ InitState
    /\ InitRequests

NextTrack ==
    \/ \E r \in Req, u \in TrackUrls : FetchStart(r, u, HdrFirst, FALSE)
    \/ \E r \in Req : SlotResume(r)
    \/ \E r \in Req : WorkGetCache(r, TRUE)
    \/ \E r \in Req : WorkMatch(r, TRUE)
    \/ \E r \in Req : MainResume(r)
    \/ \E r \in Req : FallbackDone(r)
    \/ \E r \in Req : ClientAbort(r)
    \/ \E r \in Req : StreamRead(r)

SpecTrack == InitTrack /\ [][NextTrack]_vars

\* The step adds an entry for a URL the table did not hold.
InsertsUrl ==
    \E u \in TrackUrls : ~HasUrl(urlSemaphore, u) /\ HasUrl(urlSemaphore', u)
\* The table holds more entries than maxTrackedUrls.
OverTracked(sem) == maxTrackedUrls > 0 /\ Len(sem) > maxTrackedUrls
AllIdle(sem) == \A i \in 1..Len(sem) : UrlIdle(sem[i])

\* C32: over-tracking of the admission table is temporary: an insertion of a
\* new URL into a table above maxTrackedUrls that holds an idle entry does
\* not add to the excess, and an insertion into such a table whose entries
\* are all idle takes the table towards maxTrackedUrls (it leaves fewer
\* entries than it found).
C32_OverTrackingTemporary ==
    [][(OverTracked(urlSemaphore) /\ InsertsUrl)
       => /\ FirstIdle(urlSemaphore) # 0
             => Len(urlSemaphore') <= Len(urlSemaphore)
          /\ AllIdle(urlSemaphore)
             => Len(urlSemaphore') < Len(urlSemaphore)]_vars

\* The first half of C32 alone: with an idle entry in a table above
\* maxTrackedUrls, the insertion of a new URL leaves the size as it was.
C32_ExcessNotGrown ==
    [][(OverTracked(urlSemaphore) /\ InsertsUrl /\ FirstIdle(urlSemaphore) # 0)
       => Len(urlSemaphore') = Len(urlSemaphore)]_vars

\* No step makes the table smaller: each insertion removes at most the one
\* entry it replaces.
C32_TableNeverShrinks ==
    [][Len(urlSemaphore') >= Len(urlSemaphore)]_vars

\* The table is above maxTrackedUrls with every entry idle and a URL it does
\* not hold is still to be requested.
C32_AllIdleOverTracked ==
    /\ OverTracked(urlSemaphore) /\ AllIdle(urlSemaphore)
    /\ \E r \in Req : out[r] = "none"

(* ------------- C33: one unit of work per cache key ---------------------- *)
\* Request r owns a work promise that has not settled.
DedupInFlight(r) == workOf[r] = r /\ pc[r] \in {"getCache", "match", "read"}

\* C33: in the deduplicating handler concurrent requests of one cache key
\* share one unit of work: at most one work promise per key is unsettled and
\* inFlight holds exactly the keys of the unsettled ones; a request that
\* arrives joins only work of its own key that has not settled, and else
\* starts its own; every requester of a work promise is answered with the
\* data and headers that promise produced, or with nothing if it failed.
C33_SharedWork ==
    [][/\ \A r, q \in Req :
             (DedupInFlight(r) /\ DedupInFlight(q) /\ rq[r] = rq[q]) => r = q
       /\ \A r \in Req :
             DedupInFlight(r) => MapHas(inFlight, CacheKey(rq[r].url, rq[r].hdr))
       /\ \A i \in 1..Len(inFlight) :
             /\ DedupInFlight(inFlight[i].owner)
             /\ inFlight[i].key = CacheKey(rq[inFlight[i].owner].url,
                                           rq[inFlight[i].owner].hdr)
       /\ \A r \in Req :
             /\ (workOf[r] = 0 /\ workOf'[r] # 0)
                => \/ workOf'[r] = r
                   \/ /\ DedupInFlight(workOf'[r])
                      /\ rq[workOf'[r]].url = rq'[r].url
                      /\ rq[workOf'[r]].hdr = rq'[r].hdr
             /\ (out[r] = "pending" /\ out'[r] # "pending")
                => LET res == result[workOf[r]]
                   IN IF res.kind = "ok"
                      THEN /\ out'[r] = "response206"
                           /\ resp'[r].data = res.data
                           /\ resp'[r].headers.contentRange
                                 = <<res.start, res.end, res.size>>
                      ELSE out'[r] = "passthrough" /\ resp'[r] = NoResp]_vars

\* Two requests of one key were answered from one read, and a third request
\* of that key, arriving after it settled, has started a read of its own.
C33_Witness ==
    \E r, q, p \in Req :
        /\ r # q /\ workOf[q] = r /\ workOf[r] = r
        /\ out[r] = "response206" /\ out[q] = "response206"
        /\ resp[r] = resp[q]
        /\ rq[p].url = rq[r].url /\ rq[p].hdr = rq[r].hdr
        /\ DedupInFlight(p) /\ p # r

(* ------------- C34: slot accounting under client cancellation ----------- *)
\* The requests of URL u that were admitted and have not released.
Holders(u) == {r \in Req : rq[r].url = u /\ HoldsSlot(r)}
\* The requests of URL u that were woken by a release after their client
\* had cancelled and their race had been lost.
Leaked(u) == {r \in Req : rq[r].url = u /\ grant[r] = "leaked"}

\* C34: the count of every URL is the number of requests admitted for it
\* that have not released, and a waiter whose client cancelled while it was
\* waiting is never given a slot by a later release.
C34_ExactAccounting ==
    /\ \A i \in 1..Len(urlSemaphore) :
          urlSemaphore[i].count = Cardinality(Holders(urlSemaphore[i].url))
    /\ \A r \in Req : grant[r] # "leaked"

\* What the count is: the admitted requests that have not released plus one
\* for every cancelled waiter that a release has woken.
C34_CountsLeaked ==
    \A i \in 1..Len(urlSemaphore) :
        urlSemaphore[i].count = Cardinality(Holders(urlSemaphore[i].url))
                                + Cardinality(Leaked(urlSemaphore[i].url))

\* Every request has ended and a URL still has a slot taken.
C34_SlotLostForGood ==
    /\ \A r \in Req : out[r] \notin {"none", "pending", "fallback"}
    /\ \E i \in 1..Len(urlSemaphore) : urlSemaphore[i].count > 0

(* ------------- C35: progress of requests under latest-wins -------------- *)
\* SpecProgress: latest-wins admission of the requests of one URL with one
\* slot; the store and the network answer every operation, and a settled
\* promise's continuation runs. Arrivals and client cancellations are free.
InitProgress ==
    /\ prioritizeLatestRequest = TRUE
    /\ maxConcurrentRangesPerUrl = 1
    /\ maxTrackedUrls = 0
    /\ maxCachedRanges = 0
    /\ maxCachedMetadata = 0
    /\ maxCacheableRangeSize = 0
    /\ restoreMissingToCache = FALSE
    /\ assets = NoAssets
    /\ store \in [Urls -> {NoEntry, FullObject}]
    /\ InitState
    /\ InitRequests

\* The steps that the event loop, the store and the network take on their
\* own: continuations, and the settling of store and network operations.
ProgressStep ==
    \/ \E r \in Req : SlotResume(r)
    \/ \E r \in Req : WorkGetCache(r, TRUE)
    \/ \E r \in Req : WorkMatch(r, TRUE)
    \/ \E r \in Req : MainResume(r)
    \/ \E r \in Req : FallbackDone(r)
    \/ \E r \in Req : StreamRead(r)

NextProgress ==
    \/ \E r \in Req : FetchStart(r, 1, HdrFirst, FALSE)
    \/ \E r \in Req : ClientAbort(r)
    \/ ProgressStep

SpecProgress == InitProgress /\ [][NextProgress]_vars /\ WF_vars(ProgressStep)

\* Request r has been answered: a 206, the answer of the network, or an
\* AbortError.
Terminated(r) ==
    out[r] \in {"response206", "cached206", "fallbackResponse", "abortError",
                "passthrough"}

\* C35: under latest-wins, with a store and a network that answer, every
\* request that has arrived is eventually answered (206, fallback or abort)
\* whether or not its client cancels, and a request that waits for a slot
\* eventually stops waiting (admitted, or displaced by a later arrival).
C35_Progress ==
    \A r \in Req :
        /\ (out[r] \in {"pending", "fallback"}) ~> Terminated(r)
        /\ (grant[r] = "pending") ~> (grant[r] # "pending")

\* What holds: a request is eventually answered unless a release has woken a
\* waiter whose client had cancelled, or its own client cancels.
C35_ProgressUnlessLeaked ==
    \A r \in Req :
        (out[r] \in {"pending", "fallback"})
           ~> (Terminated(r) \/ \E q \in Req : grant[q] = "leaked")

\* A request waits for a slot of a URL whose count is taken by no request.
C35_WaitsForNobody ==
    \E r \in Req :
        /\ grant[r] = "pending" /\ ~signalAborted[r]
        /\ Holders(rq[r].url) = {}

(* ------------- C36: the range of the slot counter ----------------------- *)
\* C36: the count of every URL in the table is at least 0 and at most
\* maxConcurrentRangesPerUrl, whatever acquires, promotions and releases
\* have happened.
C36_CountInRange ==
    \A i \in 1..Len(urlSemaphore) :
        /\ urlSemaphore[i].count >= 0
        /\ urlSemaphore[i].count <= maxConcurrentRangesPerUrl

\* A URL is at its capacity with a promoted waiter among its occupants,
\* after a release by an earlier occupant.
C36_Witness ==
    \E i \in 1..Len(urlSemaphore) :
        /\ urlSemaphore[i].count = maxConcurrentRangesPerUrl
        /\ \E r \in Holders(urlSemaphore[i].url) : grant[r] = "promoted"
        /\ \E q \in Req : /\ rq[q].url = urlSemaphore[i].url
                          /\ grant[q] = "release" /\ pc[q] = "finished"

(* ------------- C37: request failures and the store handle --------------- *)
\* C37: where every store access succeeds, no step resets the store handle:
\* a request that fails on its Range header, on If-Range, on missing
\* metadata, on a missing body or by cancellation leaves cacheInstance as
\* it was.
C37_HandleKept ==
    [][cacheInstance => cacheInstance']_vars

\* What holds where every store access succeeds: the handle is reset only by
\* the work promise of a request whose Range header parseRangeHeader
\* rejects; If-Range mismatches, missing metadata, missing bodies and
\* cancellations leave it.
C37_ResetOnlyByParseFailure ==
    [][(cacheInstance /\ ~cacheInstance')
       => \E r \in Req : /\ pc[r] = "match" /\ pc'[r] = "finished"
                          /\ ServeThrows(r, store[rq[r].url])]_vars

\* A request with an If-Range header that does not match, or a cancelled
\* one, has ended without a range while the handle is still set.
C37_OtherFailure ==
    /\ cacheInstance
    /\ \E r \in Req :
          /\ pc[r] = "finished" /\ result[r].kind # "ok" /\ rq[r].url # 0
          /\ \/ signalAborted[r]
             \/ HasIfRange(r) /\ ~ifRangeMatches(rq[r].ifRange,
                                    Validators(store[rq[r].url]))

(* ------------- C38: If-Range and the object that is read ---------------- *)
\* fileMetadataCache holds an entry for URL u with the size of the stored
\* object of u and other validators: the object was replaced by one of the
\* same length.
StaleValidators(u) ==
    /\ MapHas(fileMetadataCache, u)
    /\ MapGet(fileMetadataCache, u).size = store[u].size
    /\ Validators(MapGet(fileMetadataCache, u)) # Validators(store[u])

\* C38: a request with an If-Range header gets a range from the store only
\* if its If-Range value matches the validators of the stored object that
\* is read for it, also when that object replaced one of the same size
\* whose metadata is still cached.
C38_IfRangeOnObjectRead ==
    [][\A r \in Req :
          (/\ pc[r] = "match" /\ pc'[r] = "finished"
           /\ HasIfRange(r)
           /\ result'[r].kind = "ok")
          => ifRangeMatches(rq[r].ifRange, Validators(store[rq[r].url]))]_vars

\* What holds: If-Range is compared with the validators of the object read
\* unless the metadata cache holds an entry of the same size for the URL.
C38_UnlessCachedSameSize ==
    [][\A r \in Req :
          (/\ pc[r] = "match" /\ pc'[r] = "finished"
           /\ HasIfRange(r)
           /\ result'[r].kind = "ok"
           /\ ~StaleValidators(rq[r].url))
          => ifRangeMatches(rq[r].ifRange, Validators(store[rq[r].url]))]_vars

(* ------------- C39: writing a key that is already cached ---------------- *)
\* C39: a write of a key that a cache already holds leaves the set of cached
\* keys as it was, in the range cache (the write after the shared work of
\* each requester) and in the metadata cache (the write of the work
\* promise), at capacity too.
C39_RewriteKeepsKeys ==
    [][\A r \in Req :
          /\ (out[r] = "pending" /\ out'[r] = "response206"
              /\ MapHas(rangeCache, ReqKey(r)))
             => MapKeys(rangeCache') = MapKeys(rangeCache)
          /\ (pc[r] = "match" /\ pc'[r] # "match"
              /\ MapHas(fileMetadataCache, rq[r].url))
             => MapKeys(fileMetadataCache') = MapKeys(fileMetadataCache)]_vars

\* What holds: such a write keeps the keys below capacity, and at capacity
\* loses the oldest entry if that is another key.
C39_RewriteEvictsOldest ==
    [][\A r \in Req :
          (out[r] = "pending" /\ out'[r] = "response206"
           /\ MapHas(rangeCache, ReqKey(r)))
          => MapKeys(rangeCache')
                = IF Len(rangeCache) >= maxCachedRanges
                  THEN (MapKeys(rangeCache) \ {rangeCache[1].key}) \cup {ReqKey(r)}
                  ELSE MapKeys(rangeCache)]_vars

\* Two requests of one key are about to write it one after the other into a
\* range cache that holds another key and has room for one more.
C39_SecondWriterAtCapacity ==
    \E r, q \in Req :
        /\ r # q /\ ReqKey(r) = ReqKey(q)
        /\ DedupSettled(r) /\ DedupSettled(q) /\ result[workOf[r]].kind = "ok"
        /\ maxCachedRanges = 2 /\ Len(rangeCache) = 1
        /\ ~MapHas(rangeCache, ReqKey(r))

(* ------------- C40: the end of a cancelled range stream ----------------- *)
\* C40: a range stream whose working signal has fired before the whole
\* range was produced never closes normally: it is never in the closed
\* state with fewer bytes produced than the range has.
C40_AbortNeverClosesCleanly ==
    \A r \in Req :
        (/\ out[r] = "response206"
         /\ WorkSignalAborted(r)
         /\ Len(resp[r].data) < RangeSize(r))
        => stream[r] # "closed"

\* What holds: a stream whose signal fires while a chunk waits for the
\* consumer ends in the error state at its next pull, and a stream whose
\* signal never fired closes only with the whole range produced.
C40_ErrorsAtNextPull ==
    [][\A r \in Req :
          /\ (WorkSignalAborted(r) /\ stream[r] = "queued"
              /\ stream'[r] # "queued")
             => stream'[r] = "errored"
          /\ (~WorkSignalAborted(r)' /\ stream'[r] = "closed")
             => Len(resp'[r].data) = RangeSize(r)]_vars

\* A stream has ended in the error state after its signal fired.
C40_Errored ==
    \E r \in Req : stream[r] = "errored" /\ Len(resp[r].data) < RangeSize(r)

====
